---- MODULE Spec2Model ----
(***************************************************************************)
(* The SOS alert lifecycle and notification fan-out of VoiceOfHer:         *)
(* routes/sos.js (create, status, contact-response, notify-contacts),      *)
(* the SOSAlert schema, and the emergency-contact routes of                *)
(* routes/users.js that feed the targeted fan-out.                         *)
(***************************************************************************)
EXTENDS Integers, Sequences, FiniteSets, TLC

\* ------------------------------------------------------------------ bounds
MaxAlerts == 1
MaxClock == 3
MaxContacts == 2
MaxShortLen == 3

VARIABLES
    users,         \* the User collection: id -> document
    alerts,        \* the SOSAlert collection, in insertion order (id = index)
    now,           \* the clock: the number of handlers that have read new Date()
    twilioClient,  \* TRUE iff TWILIO_ACCOUNT_SID and TWILIO_AUTH_TOKEN are set
    twilioPhone,   \* TRUE iff TWILIO_PHONE_NUMBER is set
    call,          \* the request handled last, with what its environment did
    res,           \* the HTTP response sent last
    sends,         \* the phones messages.create was invoked with by the last request
    requests,      \* the requests in flight when handlers interleave: id -> its
                   \* position and local variables (empty when requests are
                   \* handled one after the other)
    writes,        \* the ledger updates the store applied for those requests, in order
    client         \* the browser page: where its sendSOSAlert call is, with its
                   \* local variables and the requests it has made

vars == <<users, alerts, now, twilioClient, twilioPhone, call, res, sends, requests, writes,
          client>>

\* ------------------------------------------------------------ phone strings
\* A phone is a JavaScript string, modelled as the sequence of its characters.
Digits == {"0", "1", "2", "3", "4", "5", "6", "7", "8", "9"}

IsWhitespace(c) == c \in {" ", "\t", "\n"}

RECURSIVE trimStart(_)
trimStart(s) ==
    IF s # <<>> /\ IsWhitespace(Head(s)) THEN trimStart(Tail(s)) ELSE s

RECURSIVE trimEnd(_)
trimEnd(s) ==
    IF s # <<>> /\ IsWhitespace(s[Len(s)])
    THEN trimEnd(SubSeq(s, 1, Len(s) - 1))
    ELSE s

trim(s) == trimEnd(trimStart(s))

\* /^[6-9]\d{9}$/
IsIndianMobile(s) ==
    /\ Len(s) = 10
    /\ s[1] \in {"6", "7", "8", "9"}
    /\ \A i \in 2..10 : s[i] \in Digits

\* /^0[6-9]\d{9}$/
IsZeroPrefixedMobile(s) ==
    /\ Len(s) = 11
    /\ s[1] = "0"
    /\ IsIndianMobile(Tail(s))

CountryCode == <<"+", "9", "1">>

\* Variant of formatPhoneNumber whose 11-digit rule strips the 0 and forgets
\* the country code.
formatPhoneNumberBareNational(phone) ==
    IF phone = <<>> THEN <<>>
    ELSE LET p == trim(phone) IN
         IF p # <<>> /\ p[1] = "+" THEN p
         ELSE IF IsIndianMobile(p) THEN CountryCode \o p
         ELSE IF IsZeroPrefixedMobile(p) THEN Tail(p)
         ELSE p

\* Variant of formatPhoneNumber that tests the trimmed string and lets the
\* untrimmed one pass through.
formatPhoneNumberUntrimmed(phone) ==
    IF phone = <<>> THEN <<>>
    ELSE LET p == trim(phone) IN
         IF p # <<>> /\ p[1] = "+" THEN phone
         ELSE IF IsIndianMobile(p) THEN CountryCode \o p
         ELSE IF IsZeroPrefixedMobile(p) THEN CountryCode \o Tail(p)
         ELSE phone

\* An absent (undefined, null) phone and the empty string are both <<>>.
formatPhoneNumber(phone) ==
    IF phone = <<>> THEN <<>>
    ELSE LET p == trim(phone) IN
         IF p # <<>> /\ p[1] = "+" THEN p
         ELSE IF IsIndianMobile(p) THEN CountryCode \o p
         ELSE IF IsZeroPrefixedMobile(p) THEN CountryCode \o Tail(p)
         ELSE p

\* ----------------------------------------------------------- user directory
UserIds == {"u1", "u2", "u3"}

\* The users that send authenticated requests; u3 is only ever a recipient.
Requesters == {"u1", "u2"}

\* The users that raise alerts and keep emergency contacts.
Creators == {"u1"}

\* The order in which User.find returns documents (insertion order).
UserOrder == <<"u1", "u2", "u3">>

\* A 10-digit mobile number with first digit d, as register and the
\* emergency-contact routes accept it.
Mobile(d) == <<d, "8", "7", "6", "5", "4", "3", "2", "1", "0">>

RegisteredName(u) == IF u = "u1" THEN "Asha" ELSE IF u = "u2" THEN "Bina" ELSE "Chitra"

RegisteredPhone(u) == IF u = "u1" THEN Mobile("9") ELSE IF u = "u2" THEN Mobile("8") ELSE Mobile("7")

RegisteredAadhar(u) == IF u = "u1" THEN "111122223333" ELSE IF u = "u2" THEN "444455556666" ELSE "777788889999"

NewUser(u, active) ==
    [ name              |-> RegisteredName(u),
      phone             |-> RegisteredPhone(u),
      aadhar            |-> RegisteredAadhar(u),
      isActive          |-> active,
      emergencyContacts |-> <<>> ]

\* Variant of ActiveUsersExcept whose query lacks isActive: true.
RECURSIVE UsersExcept(_, _)
UsersExcept(order, creator) ==
    IF order = <<>> THEN <<>>
    ELSE LET u    == Head(order)
             rest == UsersExcept(Tail(order), creator)
         IN  IF u # creator
             THEN <<[name |-> users[u].name, phone |-> users[u].phone,
                     relationship |-> "System User"]>> \o rest
             ELSE rest

\* User.find({ isActive: true, _id: { $ne: user._id } })
RECURSIVE ActiveUsersExcept(_, _)
ActiveUsersExcept(order, creator) ==
    IF order = <<>> THEN <<>>
    ELSE LET u    == Head(order)
             rest == ActiveUsersExcept(Tail(order), creator)
         IN  IF users[u].isActive /\ u # creator
             THEN <<[name |-> users[u].name, phone |-> users[u].phone,
                     relationship |-> "System User"]>> \o rest
             ELSE rest

\* ------------------------------------------------------------- the Notifier
Sent == [kind |-> "Sent", detail |-> ""]
Unconfigured == [kind |-> "Unconfigured", detail |-> ""]
Failed(detail) == [kind |-> "Failed", detail |-> detail]
\* messages.create rejects with a value that has no readable message (null,
\* undefined): reading err.message in the catch block raises out of the loop.
Thrown == [kind |-> "Thrown", detail |-> ""]

\* What twilioClient.messages.create can do when it is invoked.
TransportResults == {Sent, Failed("timeout"), Thrown}

NotConfiguredMessage == "SMS not configured - emergency logged for manual notification"

\* if (twilioClient && twilioPhone)
Configured == twilioClient /\ twilioPhone

\* The outcome of the notification attempt for recipient i: the transport is
\* invoked only when both the client and the sender number are present.
Notifier(transport, i) ==
    IF Configured THEN transport[i] ELSE Unconfigured

\* Variant of ClassifyOutcome whose catch block reports a failed send as logged.
ClassifyOutcomeFailureAsLogged(o) ==
    IF o.kind = "Sent" THEN [status |-> "sent", error |-> ""]
    ELSE [status |-> "logged", error |-> NotConfiguredMessage]

\* status and errorMsg after the try/catch around the send.
ClassifyOutcome(o) ==
    IF o.kind = "Sent" THEN [status |-> "sent", error |-> ""]
    ELSE IF o.kind = "Unconfigured"
         THEN [status |-> "logged", error |-> NotConfiguredMessage]
         ELSE [status |-> "failed", error |-> "SMS failed: " \o o.detail]

\* notificationResults.push({ name, phone, relationship, status, error })
NotificationResult(recipient, formattedPhone, o) ==
    [ name         |-> recipient.name,
      phone        |-> formattedPhone,
      relationship |-> recipient.relationship,
      status       |-> ClassifyOutcome(o).status,
      error        |-> ClassifyOutcome(o).error ]

EmptyRun == [results |-> <<>>, outcomes |-> <<>>, sends |-> <<>>, thrown |-> FALSE]

\* Variant of FanOutFrom that leaves the loop after the first failed send.
RECURSIVE FanOutUntilFailure(_, _, _, _)
FanOutUntilFailure(recipients, transport, i, run) ==
    IF i > Len(recipients) THEN run
    ELSE LET recipient      == recipients[i]
             formattedPhone == formatPhoneNumber(recipient.phone)
             o              == Notifier(transport, i)
             invoked        == IF Configured THEN Append(run.sends, formattedPhone)
                               ELSE run.sends
             next           == [ results  |-> Append(run.results,
                                                 NotificationResult(recipient, formattedPhone, o)),
                                 outcomes |-> Append(run.outcomes, o),
                                 sends    |-> invoked,
                                 thrown   |-> FALSE ]
         IN  IF o.kind = "Thrown"
             THEN [run EXCEPT !.outcomes = Append(@, o), !.sends = invoked,
                              !.thrown = TRUE]
             ELSE IF o.kind = "Failed" THEN next
             ELSE FanOutUntilFailure(recipients, transport, i + 1, next)

\* The for-loop over the recipients, from recipient i on. run.results is
\* notificationResults, run.outcomes what the Notifier did for each recipient
\* reached, run.sends the numbers messages.create was invoked with,
\* run.thrown whether a fault left the loop.
RECURSIVE FanOutFrom(_, _, _, _)
FanOutFrom(recipients, transport, i, run) ==
    IF i > Len(recipients) THEN run
    ELSE LET recipient      == recipients[i]
             formattedPhone == formatPhoneNumber(recipient.phone)
             o              == Notifier(transport, i)
             invoked        == IF Configured THEN Append(run.sends, formattedPhone)
                               ELSE run.sends
         IN  IF o.kind = "Thrown"
             THEN [run EXCEPT !.outcomes = Append(@, o), !.sends = invoked,
                              !.thrown = TRUE]
             ELSE FanOutFrom(recipients, transport, i + 1,
                     [ results  |-> Append(run.results,
                                       NotificationResult(recipient, formattedPhone, o)),
                       outcomes |-> Append(run.outcomes, o),
                       sends    |-> invoked,
                       thrown   |-> FALSE ])

FanOut(recipients, transport) == FanOutFrom(recipients, transport, 1, EmptyRun)

\* ---------------------------------------------------------- SOSAlert schema
NoDate == 0
NoUser == "none"

\* A subdocument of notifiedContacts as the schema casts it: the schema
\* declares name, phone, notifiedAt and response, so any other key of the
\* assigned object is dropped. No route passes a name.
CastNotifiedContact(entry) ==
    [ phone      |-> entry.phone,
      response   |-> entry.response,
      notifiedAt |-> entry.notifiedAt ]

\* sosAlert.notifiedContacts = notificationResults.map(...)
LedgerOf(results, t) ==
    [ i \in 1..Len(results) |->
        CastNotifiedContact(
            [ phone      |-> results[i].phone,
              response   |-> "pending",
              notifiedAt |-> t,
              status     |-> results[i].status,
              error      |-> results[i].error ]) ]

\* Variant of AssignLedger that puts the alert back to active.
AssignLedgerReopening(alert, ledger) ==
    [alert EXCEPT !.notifiedContacts = ledger, !.status = "active",
                  !.resolvedAt = NoDate, !.resolvedBy = NoUser]

\* Variant of AssignLedger that keeps the entries already there.
AssignLedgerMerging(alert, ledger) == [alert EXCEPT !.notifiedContacts = @ \o ledger]

\* alert.notifiedContacts = [...]: the assignment replaces the array.
AssignLedger(alert, ledger) == [alert EXCEPT !.notifiedContacts = ledger]

\* new SOSAlert({...}) with the schema defaults.
NewAlert(u, body, t) ==
    [ userId           |-> u,
      userAadhar       |-> users[u].aadhar,
      userName         |-> IF users[u].name # "" THEN users[u].name ELSE "Anonymous",
      userPhone        |-> users[u].phone,
      location         |-> [latitude |-> body.latitude, longitude |-> body.longitude],
      emergencyType    |-> IF body.emergencyType # "" THEN body.emergencyType ELSE "other",
      status           |-> "active",
      priority         |-> "high",
      notifiedContacts |-> <<>>,
      resolvedAt       |-> NoDate,
      resolvedBy       |-> NoUser,
      createdAt        |-> t ]

\* sosAlertSchema.methods.getSummary
getSummary(id, alert) ==
    [ id            |-> id,
      status        |-> alert.status,
      priority      |-> alert.priority,
      emergencyType |-> alert.emergencyType,
      location      |-> alert.location,
      createdAt     |-> alert.createdAt,
      userName      |-> alert.userName,
      userPhone     |-> alert.userPhone ]

NoSummary == [id |-> 0]

\* ------------------------------------------------------------- request data
\* Request bodies of POST /create. descriptionLength is the length of the
\* optional description (0: absent), emergencyType "" an absent type.
CreateBodies ==
    { [latitude |-> 12, longitude |-> 77, descriptionLength |-> 0, emergencyType |-> "assault"],
      [latitude |-> 91, longitude |-> 77, descriptionLength |-> 0, emergencyType |-> ""] }

EmergencyTypes == {"harassment", "assault", "medical", "accident", "other"}

\* Request bodies of POST /create at and around the limits of the validators.
BoundaryBodies ==
    LET atLimits == [latitude |-> 90, longitude |-> -180, descriptionLength |-> 500,
                     emergencyType |-> "other"]
    IN  { [atLimits EXCEPT !.latitude = x] : x \in {-91, -90, 12, 90, 91} }
        \cup { [atLimits EXCEPT !.longitude = x] : x \in {-181, -180, 77, 180, 181} }
        \cup { [atLimits EXCEPT !.descriptionLength = x] : x \in {0, 500, 501} }
        \cup { [atLimits EXCEPT !.emergencyType = x] : x \in {"", "harassment", "theft"} }

\* Variant of createAlertValidation with exclusive limits.
createAlertValidationExclusive(body) ==
    /\ body.latitude > -90 /\ body.latitude < 90
    /\ body.longitude > -180 /\ body.longitude < 180
    /\ body.descriptionLength < 500
    /\ (body.emergencyType = "" \/ body.emergencyType \in EmergencyTypes)

\* createAlertValidation: TRUE iff validationResult(req) is empty.
createAlertValidation(body) ==
    /\ body.latitude >= -90 /\ body.latitude <= 90
    /\ body.longitude >= -180 /\ body.longitude <= 180
    /\ body.descriptionLength <= 500
    /\ (body.emergencyType = "" \/ body.emergencyType \in EmergencyTypes)

\* Values of body.status sent to PUT /:alertId/status.
StatusInputs == {"active", "resolved", "false_alarm", "closed"}

\* Variant of statusValidation that accepts only the two closing values.
statusValidationTransitionsOnly(status) == status \in {"resolved", "false_alarm"}

\* body('status').isIn(['active', 'resolved', 'false_alarm'])
statusValidation(status) == status \in {"active", "resolved", "false_alarm"}

\* Values of body.contactPhone and body.response of POST /:alertId/contact-response.
ResponsePhones == { <<>>, Mobile("8"), CountryCode \o Mobile("8") }

ResponseInputs == {"acknowledged", "pending"}

\* body('contactPhone').notEmpty(), body('response').isIn([...])
contactResponseValidation(contactPhone, response) ==
    /\ contactPhone # <<>>
    /\ response \in {"acknowledged", "responding", "unreachable"}

\* Request bodies of POST /emergency-contacts.
ContactInputs ==
    { [name |-> "Devi", phone |-> Mobile("6"), relationship |-> "sister"],
      [name |-> "Bina", phone |-> Mobile("8"), relationship |-> ""],
      [name |-> "Esha", phone |-> <<"1", "2", "3", "4", "5">>, relationship |-> "friend"] }

\* name at least 2 characters (all names used are), phone /^[6-9]\d{9}$/.
contactValidation(body) == IsIndianMobile(body.phone)

\* The record of a request: what was asked (op, user, alertId, phone, value,
\* body), whether it passed the route's validators, what its environment did (fault,
\* recipients, outcomes), and the SOSAlert collection it found (before).
NoCall ==
    [ op |-> "none", user |-> NoUser, alertId |-> 0, valid |-> TRUE, fault |-> "none",
      recipients |-> <<>>, outcomes |-> <<>>, phone |-> <<>>, value |-> "",
      body |-> <<>>, before |-> <<>> ]

Response(code, error, alert, notifications) ==
    [code |-> code, error |-> error, alert |-> alert, notifications |-> notifications]

\* The page before sendSOSAlert is called. supported: navigator.geolocation
\* exists; asked: the getCurrentPosition requests of the current
\* getCurrentLocation call, with the browser's answers; settled: the calls
\* of resolve and reject of its promise; calls: the getCurrentLocation calls
\* made; created: the arguments of the createSOSAlert calls made.
NoLocation == [accuracy |-> -1]

NoClient ==
    [ pc |-> "idle", supported |-> TRUE, description |-> "", emergencyType |-> "",
      locationAttempts |-> 0, location |-> NoLocation, address |-> "",
      asked |-> <<>>, settled |-> <<>>, calls |-> 0, created |-> <<>>,
      outcome |-> "none" ]

\* ------------------------------------------------------------------- Init
\* An empty SOSAlert collection, the registered users (those that raise
\* alerts hold a login, so are active), and the environment of the process.
Init ==
    /\ users \in { [u \in UserIds |-> NewUser(u, active[u])] :
                       active \in { f \in [UserIds -> BOOLEAN] : \A u \in Creators : f[u] } }
    /\ alerts = <<>>
    /\ now = 0
    /\ twilioClient \in BOOLEAN
    /\ twilioPhone \in BOOLEAN
    /\ call = NoCall
    /\ res = Response(0, "", NoSummary, <<>>)
    /\ sends = <<>>
    /\ requests = <<>>
    /\ writes = <<>>
    /\ client = NoClient

\* SOSAlert.findById finds a document
Exists(alertId) == alertId \in 1..Len(alerts)

\* ------------------------------------------------------- POST /sos/create
\* The notification phase (the inner try block): recipient resolution and the
\* fan-out over the other active users. A rejected User.find leaves
\* notificationResults empty.
NotificationPhase(u, fault, transport) ==
    IF fault = "resolve" THEN EmptyRun
    ELSE FanOut(ActiveUsersExcept(UserOrder, u), transport)

\* Variant of CreateResponseCode without the inner try/catch: a fault of the
\* notification phase reaches the outer catch.
CreateResponseCodeUnguarded(fault, run) ==
    IF fault # "none" \/ run.thrown THEN 500 ELSE 201

\* The status the handler answers with: the inner catch swallows whatever the
\* notification phase raises, the outer catch reports a rejected first save.
CreateResponseCode(fault, run) ==
    IF fault = "persist" THEN 500 ELSE 201

\* fault: which store call of the handler rejects ("persist": the first
\* sosAlert.save(), "resolve": User.find, "save": the save of the ledger).
CreateAlert(u, body, fault, transport) ==
    LET t           == now + 1
        id          == Len(alerts) + 1
        sosAlert    == NewAlert(u, body, t)
        recipients  == IF fault = "resolve" THEN <<>> ELSE ActiveUsersExcept(UserOrder, u)
        run         == NotificationPhase(u, fault, transport)
        \* the second save is reached when the loop ran to its end over a
        \* non-empty recipient list
        reachesSave == Len(recipients) > 0 /\ ~run.thrown
        stored      == IF reachesSave /\ fault # "save"
                       THEN AssignLedger(sosAlert, LedgerOf(run.results, t))
                       ELSE sosAlert
        request     == [NoCall EXCEPT !.op = "createAlert", !.user = u, !.body = body,
                                      !.before = alerts]
    IN
    /\ Len(alerts) < MaxAlerts
    /\ UNCHANGED <<users, twilioClient, twilioPhone, requests, writes, client>>
    /\ IF ~createAlertValidation(body)
       THEN /\ fault = "none"
            /\ now' = now
            /\ alerts' = alerts
            /\ sends' = <<>>
            /\ call' = [request EXCEPT !.valid = FALSE]
            /\ res' = Response(400, "Validation failed", NoSummary, <<>>)
       ELSE IF fault = "persist"
       THEN /\ now < MaxClock
            /\ now' = t
            /\ alerts' = alerts
            /\ sends' = <<>>
            /\ call' = [request EXCEPT !.fault = fault]
            /\ res' = Response(CreateResponseCode(fault, run), "Failed to create SOS alert",
                               NoSummary, <<>>)
       ELSE /\ now < MaxClock
            /\ fault = "save" => reachesSave
            /\ now' = t
            /\ alerts' = Append(alerts, stored)
            /\ sends' = run.sends
            /\ call' = [request EXCEPT !.alertId = id,
                                       !.fault = IF run.thrown THEN "loop" ELSE fault,
                                       !.recipients = recipients,
                                       !.outcomes = run.outcomes]
            /\ res' = IF CreateResponseCode(fault, run) = 201
                      THEN Response(201, "", getSummary(id, sosAlert), run.results)
                      ELSE Response(500, "Failed to create SOS alert", NoSummary, <<>>)

\* ------------------------------------------------- PUT /sos/:alertId/status
\* body.resolutionNotes of the request ("": absent). The handler takes it
\* from the body and does not use it.
ResolutionNotes == {"", "caller confirmed she is safe"}

\* Variant of CanUpdate without the active-only test.
CanUpdateAnyStatus(alert) == alert.status \in {"active", "resolved", "false_alarm"}

\* if (alert.status !== 'active') return 400
CanUpdate(alert) == alert.status = "active"

\* Variant of ApplyStatus that empties the ledger of the alert it closes.
ApplyStatusClearingLedger(alert, status, u, t) ==
    [alert EXCEPT !.status = status,
                  !.resolvedAt = IF status = "resolved" THEN t ELSE @,
                  !.resolvedBy = IF status = "resolved" THEN u ELSE @,
                  !.notifiedContacts = IF status = "active" THEN @ ELSE <<>>]

\* Variant of ApplyStatus that reads the creator's name from her profile.
ApplyStatusLiveJoined(alert, status, u, t) ==
    [alert EXCEPT !.status = status,
                  !.resolvedAt = IF status = "resolved" THEN t ELSE @,
                  !.resolvedBy = IF status = "resolved" THEN u ELSE @,
                  !.userName = users[alert.userId].name]

\* Variant of ApplyStatus that stamps every transition.
ApplyStatusAlwaysStamped(alert, status, u, t) ==
    [alert EXCEPT !.status = status, !.resolvedAt = t, !.resolvedBy = u]

\* alert.status = status; resolvedAt and resolvedBy only for 'resolved'
ApplyStatus(alert, status, u, t) ==
    [alert EXCEPT !.status = status,
                  !.resolvedAt = IF status = "resolved" THEN t ELSE @,
                  !.resolvedBy = IF status = "resolved" THEN u ELSE @]

UpdateStatus(u, alertId, status, resolutionNotes) ==
    LET request == [NoCall EXCEPT !.op = "updateStatus", !.user = u, !.alertId = alertId,
                                  !.value = status, !.before = alerts,
                                  !.body = [status |-> status,
                                            resolutionNotes |-> resolutionNotes]]
        alert   == alerts[alertId]
        updated == ApplyStatus(alert, status, u, now + 1)
        stamps  == /\ statusValidation(status) /\ Exists(alertId)
                   /\ CanUpdate(alert) /\ status = "resolved"
    IN
    /\ stamps => now < MaxClock
    /\ now' = IF stamps THEN now + 1 ELSE now
    /\ sends' = <<>>
    /\ UNCHANGED <<users, twilioClient, twilioPhone, requests, writes, client>>
    /\ IF ~statusValidation(status)
       THEN /\ alerts' = alerts
            /\ call' = [request EXCEPT !.valid = FALSE]
            /\ res' = Response(400, "Validation failed", NoSummary, <<>>)
       ELSE IF ~Exists(alertId)
       THEN /\ alerts' = alerts
            /\ call' = request
            /\ res' = Response(404, "SOS alert not found", NoSummary, <<>>)
       ELSE IF ~CanUpdate(alert)
       THEN /\ alerts' = alerts
            /\ call' = request
            /\ res' = Response(400, "Can only update active alerts", NoSummary, <<>>)
       ELSE /\ alerts' = [alerts EXCEPT ![alertId] = updated]
            /\ call' = request
            /\ res' = Response(200, "", getSummary(alertId, updated), <<>>)

\* ---------------------------------------- POST /sos/:alertId/contact-response
\* alert.notifiedContacts.find(c => c.phone === contactPhone): the index of
\* the first entry with that phone from i on, 0 when there is none.
RECURSIVE FindContact(_, _, _)
FindContact(ledger, contactPhone, i) ==
    IF i > Len(ledger) THEN 0
    ELSE IF ledger[i].phone = contactPhone THEN i
    ELSE FindContact(ledger, contactPhone, i + 1)

\* Variant of RecordResponse that normalizes contactPhone before the lookup.
RecordResponseNormalized(ledger, contactPhone, response, t) ==
    LET i == FindContact(ledger, formatPhoneNumber(contactPhone), 1)
    IN  IF i # 0
        THEN [ledger EXCEPT ![i].response = response, ![i].notifiedAt = t]
        ELSE Append(ledger,
                 CastNotifiedContact(
                     [phone |-> contactPhone, response |-> response, notifiedAt |-> t]))

\* The ledger after the find-and-update-or-push.
RecordResponse(ledger, contactPhone, response, t) ==
    LET i == FindContact(ledger, contactPhone, 1)
    IN  IF i # 0
        THEN [ledger EXCEPT ![i].response = response, ![i].notifiedAt = t]
        ELSE Append(ledger,
                 CastNotifiedContact(
                     [phone |-> contactPhone, response |-> response, notifiedAt |-> t]))

RecordContactResponse(alertId, contactPhone, response) ==
    LET request == [NoCall EXCEPT !.op = "recordContactResponse", !.alertId = alertId,
                                  !.phone = contactPhone, !.value = response,
                                  !.before = alerts]
        alert   == alerts[alertId]
        updated == [alert EXCEPT !.notifiedContacts =
                        RecordResponse(@, contactPhone, response, now + 1)]
        stamps  == contactResponseValidation(contactPhone, response) /\ Exists(alertId)
    IN
    /\ stamps => now < MaxClock
    /\ now' = IF stamps THEN now + 1 ELSE now
    /\ sends' = <<>>
    /\ UNCHANGED <<users, twilioClient, twilioPhone, requests, writes, client>>
    /\ IF ~contactResponseValidation(contactPhone, response)
       THEN /\ alerts' = alerts
            /\ call' = [request EXCEPT !.valid = FALSE]
            /\ res' = Response(400, "Validation failed", NoSummary, <<>>)
       ELSE IF ~Exists(alertId)
       THEN /\ alerts' = alerts
            /\ call' = request
            /\ res' = Response(404, "SOS alert not found", NoSummary, <<>>)
       ELSE /\ alerts' = [alerts EXCEPT ![alertId] = updated]
            /\ call' = request
            /\ res' = Response(200, "", getSummary(alertId, updated), <<>>)

\* ------------------------------------------ POST /sos/:alertId/notify-contacts
\* alert.userId as the handler sees it: the stored id, or the user document
\* populate('userId') put in its place.
CreatorReference(alert, expanded) ==
    IF expanded THEN [isDocument |-> TRUE, _id |-> alert.userId]
    ELSE [isDocument |-> FALSE, value |-> alert.userId]

\* alert.userId._id ? alert.userId._id.toString() : alert.userId.toString()
alertUserId(reference) ==
    IF reference.isDocument THEN reference._id ELSE reference.value

\* Variant of IsCreator without the comparison.
IsCreatorUnchecked(reference, u) == alertUserId(reference) \in UserIds

\* the negation of: alertUserId !== req.user._id.toString()
IsCreator(reference, u) == alertUserId(reference) = u

\* Variant of HasNoContacts that lets an empty contact list through.
HasNoContactsUnchecked(user) == Len(user.emergencyContacts) < 0

\* !user || !user.emergencyContacts || user.emergencyContacts.length === 0
HasNoContacts(user) == Len(user.emergencyContacts) = 0

NotifyContacts(u, alertId, expanded, transport) ==
    LET t        == now + 1
        request  == [NoCall EXCEPT !.op = "notifyContacts", !.user = u, !.alertId = alertId,
                                   !.value = IF expanded THEN "document" ELSE "id",
                                   !.before = alerts]
        alert    == alerts[alertId]
        contacts == users[u].emergencyContacts
        run      == FanOut(contacts, transport)
        updated  == AssignLedger(alert, LedgerOf(run.results, t))
    IN
    /\ UNCHANGED <<users, twilioClient, twilioPhone, requests, writes, client>>
    /\ IF ~Exists(alertId)
       THEN /\ now' = now
            /\ alerts' = alerts
            /\ sends' = <<>>
            /\ call' = request
            /\ res' = Response(404, "SOS alert not found", NoSummary, <<>>)
       ELSE IF ~IsCreator(CreatorReference(alert, expanded), u)
       THEN /\ now' = now
            /\ alerts' = alerts
            /\ sends' = <<>>
            /\ call' = request
            /\ res' = Response(403, "Not authorized to notify contacts for this alert",
                               NoSummary, <<>>)
       ELSE IF HasNoContacts(users[u])
       THEN /\ now' = now
            /\ alerts' = alerts
            /\ sends' = <<>>
            /\ call' = request
            /\ res' = Response(400, "No emergency contacts found. Please add emergency contacts in your profile.",
                               NoSummary, <<>>)
       ELSE IF run.thrown
       THEN /\ now' = now
            /\ alerts' = alerts
            /\ sends' = run.sends
            /\ call' = [request EXCEPT !.fault = "loop", !.recipients = contacts,
                                       !.outcomes = run.outcomes]
            /\ res' = Response(500, "Failed to notify contacts", NoSummary, <<>>)
       ELSE /\ now < MaxClock
            /\ now' = t
            /\ alerts' = [alerts EXCEPT ![alertId] = updated]
            /\ sends' = run.sends
            /\ call' = [request EXCEPT !.recipients = contacts, !.outcomes = run.outcomes]
            /\ res' = Response(200, "", getSummary(alertId, updated), run.results)

\* ------------------------------------------- POST /users/emergency-contacts
\* user.emergencyContacts.find(contact => contact.phone === phone)
HasContact(contacts, phone) == \E i \in 1..Len(contacts) : contacts[i].phone = phone

AddEmergencyContact(u, body) ==
    LET request  == [NoCall EXCEPT !.op = "addEmergencyContact", !.user = u,
                                   !.phone = body.phone, !.before = alerts]
        contacts == users[u].emergencyContacts
    IN
    /\ sends' = <<>>
    /\ UNCHANGED <<alerts, now, twilioClient, twilioPhone, requests, writes, client>>
    /\ IF ~contactValidation(body)
       THEN /\ users' = users
            /\ call' = [request EXCEPT !.valid = FALSE]
            /\ res' = Response(400, "Validation failed", NoSummary, <<>>)
       ELSE IF HasContact(contacts, body.phone)
       THEN /\ users' = users
            /\ call' = request
            /\ res' = Response(400, "Emergency contact with this phone number already exists",
                               NoSummary, <<>>)
       ELSE /\ Len(contacts) < MaxContacts
            /\ users' = [users EXCEPT ![u].emergencyContacts = Append(@, body)]
            /\ call' = request
            /\ res' = Response(201, "", NoSummary, <<>>)

\* --------------------------------- PUT, DELETE /users/emergency-contacts/:id
\* Request bodies of PUT /emergency-contacts/:contactId: every field is
\* optional.
ContactUpdates ==
    { [phone |-> Mobile("6")], [phone |-> Mobile("8")], [name |-> "Devi R"],
      [phone |-> <<"1", "2", "3", "4", "5">>], [relationship |-> ""] }

\* body('phone').optional().matches(/^[6-9]\d{9}$/)
contactUpdateValidation(body) == "phone" \in DOMAIN body => IsIndianMobile(body.phone)

\* The contact after: if (name) ...; if (phone) ...; if (relationship !== undefined) ...
UpdatedContact(contact, body) ==
    [ name         |-> IF "name" \in DOMAIN body /\ body.name # "" THEN body.name
                       ELSE contact.name,
      phone        |-> IF "phone" \in DOMAIN body /\ body.phone # <<>> THEN body.phone
                       ELSE contact.phone,
      relationship |-> IF "relationship" \in DOMAIN body THEN body.relationship
                       ELSE contact.relationship ]

\* contactId: the position of the contact whose _id the request names, 0
\* when the user has no contact with that _id.
UpdateEmergencyContact(u, contactId, body) ==
    LET request  == [NoCall EXCEPT !.op = "updateEmergencyContact", !.user = u,
                                   !.body = body, !.before = alerts]
        contacts == users[u].emergencyContacts
    IN
    /\ sends' = <<>>
    /\ UNCHANGED <<alerts, now, twilioClient, twilioPhone, requests, writes, client>>
    /\ contactId \in 0..Len(contacts)
    /\ IF ~contactUpdateValidation(body)
       THEN /\ users' = users
            /\ call' = [request EXCEPT !.valid = FALSE]
            /\ res' = Response(400, "Validation failed", NoSummary, <<>>)
       ELSE IF contactId = 0
       THEN /\ users' = users
            /\ call' = request
            /\ res' = Response(404, "Emergency contact not found", NoSummary, <<>>)
       ELSE /\ users' = [users EXCEPT ![u].emergencyContacts[contactId] =
                                         UpdatedContact(@, body)]
            /\ call' = request
            /\ res' = Response(200, "", NoSummary, <<>>)

\* user.emergencyContacts.splice(contactIndex, 1)
Splice(contacts, i) ==
    [k \in 1..(Len(contacts) - 1) |-> IF k < i THEN contacts[k] ELSE contacts[k + 1]]

DeleteEmergencyContact(u, contactId) ==
    LET request  == [NoCall EXCEPT !.op = "deleteEmergencyContact", !.user = u,
                                   !.before = alerts]
        contacts == users[u].emergencyContacts
    IN
    /\ sends' = <<>>
    /\ UNCHANGED <<alerts, now, twilioClient, twilioPhone, requests, writes, client>>
    /\ contactId \in 0..Len(contacts)
    /\ call' = request
    /\ IF contactId = 0
       THEN /\ users' = users
            /\ res' = Response(404, "Emergency contact not found", NoSummary, <<>>)
       ELSE /\ users' = [users EXCEPT ![u].emergencyContacts = Splice(@, contactId)]
            /\ res' = Response(200, "", NoSummary, <<>>)

\* ------------------------------------------------------------------- Next
AlertIds == 1..MaxAlerts

\* What the transport does on each of its invocations for a recipient list:
\* it is invoked for a recipient only when the Notifier is configured.
Transports(recipients) ==
    [1..(IF Configured THEN Len(recipients) ELSE 0) -> TransportResults]

\* PUT /api/auth/profile: the name of the body, when it has one, replaces
\* the saved name, and its emergency contacts, when it has any, replace the
\* saved list as they are; no validator, no duplicate test.
ProfileBodies ==
    { [ emergencyContacts |->
          << [name |-> "Bina", phone |-> Mobile("8"), relationship |-> "friend"],
             [name |-> "Bina home", phone |-> <<"0">> \o Mobile("8"),
              relationship |-> "friend"] >> ],
      [ name |-> RegisteredName("u1") ] }

UpdateProfile(u, body) ==
    /\ sends' = <<>>
    /\ UNCHANGED <<alerts, now, twilioClient, twilioPhone, requests, writes, client>>
    /\ call' = [NoCall EXCEPT !.op = "updateProfile", !.user = u, !.before = alerts]
    /\ users' = LET named == IF "name" \in DOMAIN body /\ body.name # ""
                             THEN [users EXCEPT ![u].name = body.name]
                             ELSE users
                IN  IF "emergencyContacts" \in DOMAIN body
                    THEN [named EXCEPT ![u].emergencyContacts = body.emergencyContacts]
                    ELSE named
    /\ res' = Response(200, "", NoSummary, <<>>)

\* ------------------------------------------------------ PUT /users/profile
\* Request bodies of PUT /users/profile that carry a name.
RenameBodies == { [name |-> "Asha K"], [name |-> "A"] }

\* The number of characters of the names used.
NameLength(name) == IF name = "A" THEN 1 ELSE IF name = "" THEN 0 ELSE 4

\* body('name').optional().trim().isLength({ min: 2 })
profileValidation(body) == "name" \in DOMAIN body => NameLength(body.name) >= 2

UpdateUserProfile(u, body) ==
    LET request == [NoCall EXCEPT !.op = "updateUserProfile", !.user = u, !.body = body,
                                  !.before = alerts]
    IN
    /\ sends' = <<>>
    /\ UNCHANGED <<alerts, now, twilioClient, twilioPhone, requests, writes, client>>
    /\ IF ~profileValidation(body)
       THEN /\ users' = users
            /\ call' = [request EXCEPT !.valid = FALSE]
            /\ res' = Response(400, "Validation failed", NoSummary, <<>>)
       ELSE /\ users' = IF "name" \in DOMAIN body /\ body.name # ""
                        THEN [users EXCEPT ![u].name = body.name]
                        ELSE users
            /\ call' = request
            /\ res' = Response(200, "", NoSummary, <<>>)

Next ==
    \/ \E u \in Creators, body \in ProfileBodies : UpdateProfile(u, body)
    \/ \E u \in Creators, body \in CreateBodies,
          fault \in {"none", "persist", "resolve", "save"} :
          \E transport \in Transports(ActiveUsersExcept(UserOrder, u)) :
             CreateAlert(u, body, fault, transport)
    \/ \E u \in Requesters, alertId \in AlertIds, status \in StatusInputs :
          UpdateStatus(u, alertId, status, "")
    \/ \E alertId \in AlertIds, contactPhone \in ResponsePhones, response \in ResponseInputs :
          RecordContactResponse(alertId, contactPhone, response)
    \/ \E u \in Requesters, alertId \in AlertIds, expanded \in BOOLEAN :
          \E transport \in Transports(users[u].emergencyContacts) :
             NotifyContacts(u, alertId, expanded, transport)
    \/ \E u \in Creators, body \in ContactInputs : AddEmergencyContact(u, body)

Spec == Init /\ [][Next]_vars

\* POST /create alone, over the bodies at the validators' limits.
ValidationNext ==
    \E u \in Creators, body \in BoundaryBodies,
       fault \in {"none", "persist", "resolve", "save"} :
       \E transport \in Transports(ActiveUsersExcept(UserOrder, u)) :
          CreateAlert(u, body, fault, transport)

ValidationSpec == Init /\ [][ValidationNext]_vars

\* Alerts raised, answered by a contact and closed, with and without
\* resolution notes.
StatusNext ==
    \/ \E u \in Creators, body \in CreateBodies :
          \E transport \in Transports(ActiveUsersExcept(UserOrder, u)) :
             CreateAlert(u, body, "none", transport)
    \/ \E alertId \in AlertIds, contactPhone \in ResponsePhones :
          RecordContactResponse(alertId, contactPhone, "acknowledged")
    \/ \E u \in Requesters, alertId \in AlertIds, status \in StatusInputs,
          resolutionNotes \in ResolutionNotes :
          UpdateStatus(u, alertId, status, resolutionNotes)

StatusSpec == Init /\ [][StatusNext]_vars

\* The routes that write a user's saved emergency contacts.
ContactsNext ==
    \/ \E u \in Creators, body \in ContactInputs : AddEmergencyContact(u, body)
    \/ \E u \in Creators, contactId \in 0..MaxContacts, body \in ContactUpdates :
          UpdateEmergencyContact(u, contactId, body)
    \/ \E u \in Creators, contactId \in 0..MaxContacts : DeleteEmergencyContact(u, contactId)
    \/ \E u \in Creators, body \in ProfileBodies : UpdateProfile(u, body)
    \/ \E u \in Creators, body \in RenameBodies : UpdateUserProfile(u, body)

ContactsSpec == Init /\ [][ContactsNext]_vars

\* ------------------------------------------------------ the read-only queries
\* Variant of IsActiveAlert whose filter lacks status: 'active'.
IsActiveAlertAnyStatus(alert) == alert.status \in {"active", "resolved", "false_alarm"}

\* The filter { status: 'active' } of getActiveAlerts and of the nearby query.
IsActiveAlert(alert) == alert.status = "active"

\* .sort({ createdAt: -1 }): the ids of the set, newest first.
RECURSIVE NewestFirst(_)
NewestFirst(ids) ==
    IF ids = {} THEN <<>>
    ELSE LET newest == CHOOSE a \in ids :
                          \A b \in ids : \/ alerts[a].createdAt > alerts[b].createdAt
                                          \/ (alerts[a].createdAt = alerts[b].createdAt /\ a <= b)
         IN  <<newest>> \o NewestFirst(ids \ {newest})

\* alerts.map(alert => alert.getSummary())
Summaries(ids) == [k \in 1..Len(ids) |-> getSummary(ids[k], alerts[ids[k]])]

\* res.json({ alerts, count }) or the 500 of the catch block.
ListResponse(ok, failure, ids) ==
    IF ok THEN [code |-> 200, error |-> "", alerts |-> Summaries(ids), count |-> Len(ids)]
    ELSE [code |-> 500, error |-> failure, alerts |-> <<>>, count |-> 0]

\* GET /active. ok: the find settles with its result (else it rejects).
GetActiveAlerts(ok) ==
    LET found == {a \in 1..Len(alerts) : IsActiveAlert(alerts[a])} IN
    /\ UNCHANGED <<users, alerts, now, twilioClient, twilioPhone, requests, writes, client>>
    /\ sends' = <<>>
    /\ call' = [NoCall EXCEPT !.op = "getActiveAlerts", !.before = alerts]
    /\ res' = ListResponse(ok, "Failed to get active alerts", NewestFirst(found))

\* GET /my-alerts: every alert of the caller, whatever its status.
GetUserAlerts(u, ok) ==
    LET found == {a \in 1..Len(alerts) : alerts[a].userId = u} IN
    /\ UNCHANGED <<users, alerts, now, twilioClient, twilioPhone, requests, writes, client>>
    /\ sends' = <<>>
    /\ call' = [NoCall EXCEPT !.op = "getUserAlerts", !.user = u, !.before = alerts]
    /\ res' = ListResponse(ok, "Failed to get user alerts", NewestFirst(found))

\* parseFloat(radius) * 1000
radiusInMeters(radius) == radius * 1000

\* GET /nearby/:latitude/:longitude/:radius. within: the alerts the
\* geospatial index finds inside the radius, nearest first; the filter keeps
\* the active ones of them.
GetNearbyAlerts(latitude, longitude, radius, within, ok) ==
    LET found == SelectSeq(within, LAMBDA a : IsActiveAlert(alerts[a])) IN
    /\ UNCHANGED <<users, alerts, now, twilioClient, twilioPhone, requests, writes, client>>
    /\ sends' = <<>>
    /\ call' = [NoCall EXCEPT !.op = "getNearbyAlerts", !.before = alerts,
                              !.body = [latitude |-> latitude, longitude |-> longitude,
                                        maxDistance |-> radiusInMeters(radius),
                                        within |-> within]]
    /\ res' = ListResponse(ok, "Failed to get nearby alerts", found)

\* The answers of the geospatial index: the stored alerts, or none of them.
IndexAnswers == { <<>> } \cup { NewestFirst(1..Len(alerts)) }

\* Alerts raised and closed, and the three queries.
QueryNext ==
    \/ \E u \in Creators, body \in CreateBodies :
          \E transport \in Transports(ActiveUsersExcept(UserOrder, u)) :
             CreateAlert(u, body, "none", transport)
    \/ \E u \in Requesters, alertId \in AlertIds, status \in {"resolved", "false_alarm"} :
          UpdateStatus(u, alertId, status, "")
    \/ \E ok \in BOOLEAN : GetActiveAlerts(ok)
    \/ \E u \in Requesters, ok \in BOOLEAN : GetUserAlerts(u, ok)
    \/ \E radius \in {1, 5}, within \in IndexAnswers, ok \in BOOLEAN :
          GetNearbyAlerts(12, 77, radius, within, ok)

QuerySpec == Init /\ [][QueryNext]_vars

\* The handlers that touch an alert or its creator's profile, with the
\* creator renaming herself through either profile route.
SnapshotNext ==
    \/ \E u \in Creators, body \in RenameBodies : UpdateUserProfile(u, body)
    \/ \E u \in Creators : UpdateProfile(u, [name |-> "Asha Rao"])
    \/ \E u \in Creators :
          AddEmergencyContact(u, [name |-> "Devi", phone |-> Mobile("6"),
                                  relationship |-> "sister"])
    \/ \E u \in Creators, body \in CreateBodies :
          \E transport \in Transports(ActiveUsersExcept(UserOrder, u)) :
             CreateAlert(u, body, "none", transport)
    \/ \E u \in Requesters, alertId \in AlertIds, status \in {"resolved", "false_alarm"} :
          UpdateStatus(u, alertId, status, "")
    \/ \E alertId \in AlertIds :
          RecordContactResponse(alertId, Mobile("8"), "acknowledged")
    \/ \E u \in Creators, alertId \in AlertIds :
          \E transport \in Transports(users[u].emergencyContacts) :
             NotifyContacts(u, alertId, TRUE, transport)

SnapshotSpec == Init /\ [][SnapshotNext]_vars

\* ----------------------------------------------------- interleaved handlers
\* Two requests handled by the one Node process: a handler runs without
\* interruption up to its next await, where another handler may run. The
\* awaits are the store calls (save, find, findById) and messages.create.
RequestIds == {"r1", "r2"}

NoDoc == [status |-> "none"]

\* A request: its operation and arguments, where its handler is (pc: "idle"
\* not arrived, "insert", "resolve", "load", "await", "save" the call it
\* awaits, "done" answered), and the handler's local variables: doc the
\* document in memory and modified its changed paths, the recipients, i the
\* recipient the loop is at, notificationResults (results), what the
\* Notifier did (outcomes), the numbers messages.create was invoked with
\* (sends), whether the invocation awaited will ever settle (settles), and
\* the answer (code; results are its notifications).
NoRequest ==
    [ op |-> "none", pc |-> "idle", user |-> NoUser, alertId |-> 0, value |-> "",
      doc |-> NoDoc, modified |-> {}, recipients |-> <<>>, i |-> 1,
      results |-> <<>>, outcomes |-> <<>>, sends |-> <<>>, settles |-> TRUE,
      found |-> <<>>, code |-> 0 ]

Answered(r, code) == [r EXCEPT !.pc = "done", !.code = code]

\* Variant of NextRecipient that stays on a recipient whose send failed.
NextRecipientRetrying(i, o) == IF o.kind = "Failed" THEN i ELSE i + 1

\* for (const ... of ...): the loop moves on whatever the outcome was.
NextRecipient(i, o) == i + 1

\* Variant of LoopEnded that leaves the loop after its first round.
LoopEndedAfterFirst(r) == r.i > 1 \/ r.i > Len(r.recipients)

\* The for-loop has no recipient left.
LoopEnded(r) == r.i > Len(r.recipients)

\* The end of a round of the loop: notificationResults.push({...}).
Recorded(r, o) ==
    [r EXCEPT !.results  = Append(@, NotificationResult(r.recipients[r.i],
                                        formatPhoneNumber(r.recipients[r.i].phone), o)),
              !.outcomes = Append(@, o),
              !.i        = NextRecipient(@, o)]

\* The handler from the top of a round of the loop to its next await: with
\* the Notifier configured it invokes messages.create for recipient i and
\* awaits it; unconfigured, the rounds have no await and the loop runs to its
\* end. After the loop the ledger is assigned (at time t) and save() called.
\* (The request after a round is bound as a value, so that the next round
\* starts from it rather than from the expression that computes it.)
RECURSIVE RunToAwait(_, _)
RunToAwait(r, t) ==
    IF LoopEnded(r)
    THEN [r EXCEPT !.doc = AssignLedger(@, LedgerOf(r.results, t)),
                   !.modified = {"notifiedContacts"},
                   !.pc = "save"]
    ELSE IF Configured
    THEN [r EXCEPT !.sends = Append(@, formatPhoneNumber(r.recipients[r.i].phone)),
                   !.pc = "await"]
    ELSE CHOOSE next \in { RunToAwait(q, t) : q \in {Recorded(r, Unconfigured)} } : TRUE

\* Variant of WriteModified for an update that pushes onto the stored array.
WriteModifiedPushing(stored, doc, modified) ==
    [ f \in DOMAIN stored |->
        IF f \notin modified THEN stored[f]
        ELSE IF f = "notifiedContacts" THEN stored[f] \o doc[f]
        ELSE doc[f] ]

\* doc.save() of a loaded document: the update sets the modified paths and
\* leaves the other paths of the stored document as they are.
WriteModified(stored, doc, modified) ==
    [ f \in DOMAIN stored |-> IF f \in modified THEN doc[f] ELSE stored[f] ]

\* The alert raised before the requests arrive, when there is one.
StandingAlert == NewAlert("u1", [latitude |-> 12, longitude |-> 77,
                                 descriptionLength |-> 0, emergencyType |-> "assault"], 1)

\* Every user active, the creator with two saved contacts, and either no
\* alert or the standing one.
ConcurrentInit ==
    /\ users = [u \in UserIds |->
                   IF u \in Creators
                   THEN [NewUser(u, TRUE) EXCEPT !.emergencyContacts =
                            << [name |-> "Devi", phone |-> Mobile("6"), relationship |-> "sister"],
                               [name |-> "Bina", phone |-> Mobile("8"), relationship |-> ""] >>]
                   ELSE NewUser(u, TRUE)]
    /\ \/ alerts = <<>> /\ now = 0
       \/ alerts = <<StandingAlert>> /\ now = 1
    /\ twilioClient \in BOOLEAN
    /\ twilioPhone \in BOOLEAN
    /\ call = NoCall
    /\ res = Response(0, "", NoSummary, <<>>)
    /\ sends = <<>>
    /\ requests = [p \in RequestIds |-> NoRequest]
    /\ writes = <<>>
    /\ client = NoClient

Untouched == UNCHANGED <<users, twilioClient, twilioPhone, call, res, sends, client>>

\* The request arrives and its handler runs to its first await: the
\* validators, then save() of the new alert (create) or findById.
Arrive(p, op, u, alertId, value, body) ==
    LET r == [NoRequest EXCEPT !.op = op, !.user = u, !.alertId = alertId, !.value = value]
        inserting == Cardinality({q \in RequestIds : requests[q].pc = "insert"})
    IN
    /\ requests[p].pc = "idle"
    /\ Untouched
    /\ UNCHANGED <<alerts, writes>>
    /\ \/ /\ op = "createAlert"
          /\ alertId = 0 /\ value = ""
          /\ Len(alerts) + inserting < MaxAlerts
          /\ IF createAlertValidation(body)
             THEN /\ now' = now + 1
                  /\ requests' = [requests EXCEPT ![p] =
                        [r EXCEPT !.doc = NewAlert(u, body, now + 1), !.pc = "insert"]]
             ELSE /\ now' = now
                  /\ requests' = [requests EXCEPT ![p] = Answered(r, 400)]
       \/ /\ op = "notifyContacts"
          /\ value = ""
          /\ now' = now
          /\ requests' = [requests EXCEPT ![p] = [r EXCEPT !.pc = "load"]]
       \/ /\ op = "updateStatus"
          /\ now' = now
          /\ requests' = [requests EXCEPT ![p] =
                IF statusValidation(value) THEN [r EXCEPT !.pc = "load"]
                ELSE Answered(r, 400)]

\* The first save() settles: the alert is inserted and User.find called, or
\* the save rejects and the outer catch answers 500.
Insert(p, ok) ==
    LET r == requests[p] IN
    /\ r.pc = "insert"
    /\ Untouched
    /\ UNCHANGED <<now, writes>>
    /\ IF ok
       THEN /\ alerts' = Append(alerts, r.doc)
            /\ requests' = [requests EXCEPT ![p] =
                  [r EXCEPT !.alertId = Len(alerts) + 1, !.pc = "resolve"]]
       ELSE /\ alerts' = alerts
            /\ requests' = [requests EXCEPT ![p] = Answered(r, 500)]

\* User.find settles: the loop starts over the other active users; without
\* any, or when the find rejects, the handler answers 201 at once.
Resolve(p, ok, settles) ==
    LET r          == requests[p]
        recipients == ActiveUsersExcept(UserOrder, r.user)
        next       == RunToAwait([r EXCEPT !.recipients = recipients,
                                           !.found = r.doc.notifiedContacts], now + 1)
    IN
    /\ r.pc = "resolve"
    /\ Untouched
    /\ UNCHANGED <<alerts, writes>>
    /\ IF ~ok \/ Len(recipients) = 0
       THEN /\ settles
            /\ now' = now
            /\ requests' = [requests EXCEPT ![p] = Answered(r, 201)]
       ELSE /\ settles \/ next.pc = "await"
            /\ now' = IF next.pc = "save" THEN now + 1 ELSE now
            /\ requests' = [requests EXCEPT ![p] = [next EXCEPT !.settles = settles]]

\* findById settles and the handler runs on with the document it read.
\* notify-contacts: 404, 403 or 400 (populate puts the creator's document
\* in place of the id; User.findById reads the contacts), else the loop
\* starts over the saved contacts. status: 404 or 400, else the new status
\* is assigned, stamped when it is resolved, and save() called.
Load(p, settles) ==
    LET r    == requests[p]
        doc  == alerts[r.alertId]
        next == RunToAwait([r EXCEPT !.doc = doc, !.found = doc.notifiedContacts,
                                     !.recipients = users[r.user].emergencyContacts],
                           now + 1)
    IN
    /\ r.pc = "load"
    /\ Untouched
    /\ UNCHANGED <<alerts, writes>>
    /\ IF ~Exists(r.alertId)
       THEN /\ settles
            /\ now' = now
            /\ requests' = [requests EXCEPT ![p] = Answered(r, 404)]
       ELSE IF r.op = "notifyContacts"
       THEN IF ~IsCreator(CreatorReference(doc, TRUE), r.user)
            THEN /\ settles
                 /\ now' = now
                 /\ requests' = [requests EXCEPT ![p] = Answered(r, 403)]
            ELSE IF HasNoContacts(users[r.user])
            THEN /\ settles
                 /\ now' = now
                 /\ requests' = [requests EXCEPT ![p] = Answered(r, 400)]
            ELSE /\ settles \/ next.pc = "await"
                 /\ now' = IF next.pc = "save" THEN now + 1 ELSE now
                 /\ requests' = [requests EXCEPT ![p] = [next EXCEPT !.settles = settles]]
       ELSE /\ settles
            /\ IF ~CanUpdate(doc)
               THEN /\ now' = now
                    /\ requests' = [requests EXCEPT ![p] = Answered(r, 400)]
               ELSE /\ now' = IF r.value = "resolved" THEN now + 1 ELSE now
                    /\ requests' = [requests EXCEPT ![p] =
                          [r EXCEPT !.doc = ApplyStatus(doc, r.value, r.user, now + 1),
                                    !.found = doc.notifiedContacts,
                                    !.modified = IF r.value = "resolved"
                                                 THEN {"status", "resolvedAt", "resolvedBy"}
                                                 ELSE {"status"},
                                    !.pc = "save"]]

\* messages.create settles with outcome o and the handler runs to its next
\* await. A fault in the catch block leaves the loop: the inner catch of
\* create answers 201, the catch of notify-contacts 500.
Return(p, o, settles) ==
    LET r    == requests[p]
        next == RunToAwait(Recorded(r, o), now + 1)
    IN
    /\ r.pc = "await"
    /\ r.settles
    /\ Untouched
    /\ UNCHANGED <<alerts, writes>>
    /\ IF o.kind = "Thrown"
       THEN /\ settles
            /\ now' = now
            /\ requests' = [requests EXCEPT ![p] =
                  Answered([r EXCEPT !.outcomes = Append(@, o)],
                           IF r.op = "createAlert" THEN 201 ELSE 500)]
       ELSE /\ settles \/ next.pc = "await"
            /\ now' = IF next.pc = "save" THEN now + 1 ELSE now
            /\ requests' = [requests EXCEPT ![p] = [next EXCEPT !.settles = settles]]

\* save() of the loaded document settles: the store sets the modified paths
\* and the handler answers; when it rejects, the inner catch of create
\* still answers 201 and the other handlers answer 500.
Save(p, ok) ==
    LET r == requests[p] IN
    /\ r.pc = "save"
    /\ Untouched
    /\ now' = now
    /\ IF ok
       THEN /\ alerts' = [alerts EXCEPT ![r.alertId] = WriteModified(@, r.doc, r.modified)]
            /\ writes' = IF "notifiedContacts" \in r.modified
                         THEN Append(writes, [request |-> p, alertId |-> r.alertId,
                                              ledger |-> r.doc.notifiedContacts])
                         ELSE writes
            /\ requests' = [requests EXCEPT ![p] =
                  Answered(r, IF r.op = "createAlert" THEN 201 ELSE 200)]
       ELSE /\ UNCHANGED <<alerts, writes>>
            /\ requests' = [requests EXCEPT ![p] =
                  Answered(r, IF r.op = "createAlert" THEN 201 ELSE 500)]

\* What the handler of request p does when the call it awaits settles.
Continue(p) ==
    \/ \E ok \in BOOLEAN : Insert(p, ok)
    \/ \E ok \in BOOLEAN, settles \in BOOLEAN : Resolve(p, ok, settles)
    \/ \E settles \in BOOLEAN : Load(p, settles)
    \/ \E o \in TransportResults, settles \in BOOLEAN : Return(p, o, settles)
    \/ \E ok \in BOOLEAN : Save(p, ok)

ConcurrentNext ==
    \/ \E p \in RequestIds, u \in Creators, body \in CreateBodies :
          Arrive(p, "createAlert", u, 0, "", body)
    \/ \E p \in RequestIds, u \in Requesters, alertId \in AlertIds :
          Arrive(p, "notifyContacts", u, alertId, "", <<>>)
    \/ \E p \in RequestIds, u \in Requesters, alertId \in AlertIds,
          status \in {"resolved", "false_alarm"} :
          Arrive(p, "updateStatus", u, alertId, status, <<>>)
    \/ \E p \in RequestIds : Continue(p)

\* The store answers every call and the event loop runs every continuation
\* that is ready; the transport answers the invocations that settle.
ConcurrentSpec ==
    ConcurrentInit /\ [][ConcurrentNext]_vars /\ \A p \in RequestIds : WF_vars(Continue(p))

\* ------------------------------------------- interleaved contact responses
\* Two contact-response requests at a time on the standing alert, each
\* followed from await to await: findById, then save. A request: where it
\* is (pc), what it asked, and the change its handler made to the document
\* in memory (update), which save() sends to the store.
NoResponseRequest ==
    [ op |-> "none", pc |-> "idle", alertId |-> 0, contactPhone |-> <<>>,
      response |-> "", update |-> [kind |-> "none"], code |-> 0 ]

ResponseInit ==
    /\ users = [u \in UserIds |-> NewUser(u, TRUE)]
    /\ alerts = <<StandingAlert>>
    /\ now = 1
    /\ twilioClient = FALSE
    /\ twilioPhone = FALSE
    /\ call = NoCall
    /\ res = Response(0, "", NoSummary, <<>>)
    /\ sends = <<>>
    /\ requests = [p \in RequestIds |-> NoResponseRequest]
    /\ writes = <<>>
    /\ client = NoClient

\* The request arrives (in the place of one already answered) and its
\* handler runs to findById, or answers 400.
ArriveResponse(p, alertId, contactPhone, response) ==
    LET r == [NoResponseRequest EXCEPT !.op = "recordContactResponse", !.alertId = alertId,
                                       !.contactPhone = contactPhone, !.response = response]
    IN
    /\ requests[p].pc \in {"idle", "done"}
    /\ Untouched
    /\ UNCHANGED <<alerts, now, writes>>
    /\ requests' = [requests EXCEPT ![p] =
          IF contactResponseValidation(contactPhone, response)
          THEN [r EXCEPT !.pc = "load"]
          ELSE Answered(r, 400)]

\* findById settles: 404, or the handler looks the phone up in the document
\* it read and changes that entry in memory or pushes a new one, then calls
\* save().
LoadResponse(p) ==
    LET r     == requests[p]
        doc   == alerts[r.alertId]
        i     == FindContact(doc.notifiedContacts, r.contactPhone, 1)
        entry == CastNotifiedContact([phone |-> r.contactPhone, response |-> r.response,
                                      notifiedAt |-> now + 1])
    IN
    /\ r.pc = "load"
    /\ Untouched
    /\ UNCHANGED <<alerts, writes>>
    /\ IF ~Exists(r.alertId)
       THEN /\ now' = now
            /\ requests' = [requests EXCEPT ![p] = Answered(r, 404)]
       ELSE /\ now < MaxClock
            /\ now' = now + 1
            /\ requests' = [requests EXCEPT ![p] =
                  [r EXCEPT !.pc = "save",
                            !.update = IF i # 0
                                       THEN [kind |-> "set", index |-> i,
                                             response |-> r.response, notifiedAt |-> now + 1]
                                       ELSE [kind |-> "push", entry |-> entry]]]

\* The update save() sends for the change made in memory: the changed
\* fields of entry index are set, a pushed entry is appended to the array
\* the store holds by then.
ApplyUpdate(ledger, update) ==
    IF update.kind = "set"
    THEN [ledger EXCEPT ![update.index].response = update.response,
                        ![update.index].notifiedAt = update.notifiedAt]
    ELSE Append(ledger, update.entry)

\* save() settles: the store applied the update, or the save rejected.
SaveResponse(p, ok) ==
    LET r == requests[p] IN
    /\ r.pc = "save"
    /\ Untouched
    /\ UNCHANGED <<now, writes>>
    /\ IF ok
       THEN /\ alerts' = [alerts EXCEPT ![r.alertId].notifiedContacts = ApplyUpdate(@, r.update)]
            /\ requests' = [requests EXCEPT ![p] = Answered(r, 200)]
       ELSE /\ alerts' = alerts
            /\ requests' = [requests EXCEPT ![p] = Answered(r, 500)]

ResponseNext ==
    \/ \E p \in RequestIds, alertId \in 1..(MaxAlerts + 1),
          contactPhone \in ResponsePhones, response \in ResponseInputs :
          ArriveResponse(p, alertId, contactPhone, response)
    \/ \E p \in RequestIds : LoadResponse(p)
    \/ \E p \in RequestIds, ok \in BOOLEAN : SaveResponse(p, ok)

ResponseSpec == ResponseInit /\ [][ResponseNext]_vars

\* ------------------------------------------------------ the browser client
\* Positions the browser may report (coords.latitude, longitude, accuracy).
Positions ==
    { [latitude |-> 12, longitude |-> 77, accuracy |-> 20],
      [latitude |-> 12, longitude |-> 77, accuracy |-> 1500],
      [latitude |-> 0, longitude |-> 77, accuracy |-> 20] }

\* The codes of a GeolocationPositionError.
GeolocationErrors == {"PERMISSION_DENIED", "POSITION_UNAVAILABLE", "TIMEOUT"}

\* What the browser answers a getCurrentPosition request with: it calls the
\* success callback with a position or the error callback with a code.
GeolocationAnswers ==
    { [ok |-> TRUE, position |-> p] : p \in Positions }
    \cup { [ok |-> FALSE, code |-> c] : c \in GeolocationErrors }

\* The options of the two getCurrentPosition requests.
HighAccuracy == [enableHighAccuracy |-> TRUE, timeout |-> 15000, maximumAge |-> 60000]

LowAccuracy == [enableHighAccuracy |-> FALSE, timeout |-> 20000, maximumAge |-> 300000]

Pending == [pending |-> TRUE]

Request(options) == [options |-> options, answer |-> Pending]

Resolved(position) == [kind |-> "resolve", value |-> position]

Rejected(message) == [kind |-> "reject", value |-> message]

\* handleGeolocationError: the message of the Error the promise is rejected with.
GeolocationMessage(code) ==
    IF code = "PERMISSION_DENIED"
    THEN "Location permission denied. Please enable location access in your browser settings and try again."
    ELSE IF code = "POSITION_UNAVAILABLE"
    THEN "Location information is unavailable. Please check your GPS settings and ensure you have a good signal."
    ELSE IF code = "TIMEOUT"
    THEN "Location request timed out. Please check your internet connection and GPS signal, then try again."
    ELSE "An unknown error occurred while getting location. Please try again."

\* Variant of FallsBackToLowAccuracy that retries after every error.
FallsBackOnAnyError(code) == code \in GeolocationErrors

\* error.code === error.TIMEOUT || error.code === error.POSITION_UNAVAILABLE
FallsBackToLowAccuracy(code) == code \in {"TIMEOUT", "POSITION_UNAVAILABLE"}

\* getCurrentLocation() up to its return: the executor of the new promise
\* rejects at once without navigator.geolocation, else makes the
\* high-accuracy request.
GetCurrentLocation(c) ==
    [c EXCEPT !.pc      = "locating",
              !.calls   = @ + 1,
              !.asked   = IF c.supported THEN <<Request(HighAccuracy)>> ELSE <<>>,
              !.settled = IF c.supported THEN <<>>
                          ELSE <<Rejected("Geolocation is not supported by this browser")>>]

\* The callbacks of the request answered: success resolves; an error of the
\* high-accuracy request makes the low-accuracy request or rejects; an
\* error of the low-accuracy request rejects.
Answer(c, k, answer) ==
    LET options == c.asked[k].options
        asked   == [c.asked EXCEPT ![k].answer = answer]
    IN  IF answer.ok
        THEN [c EXCEPT !.asked = asked, !.settled = Append(@, Resolved(answer.position))]
        ELSE IF options.enableHighAccuracy /\ FallsBackToLowAccuracy(answer.code)
        THEN [c EXCEPT !.asked = Append(asked, Request(LowAccuracy))]
        ELSE [c EXCEPT !.asked = asked,
                       !.settled = Append(@, Rejected(GeolocationMessage(answer.code)))]

maxLocationAttempts == 2

\* Variant of LoopContinues that enters the loop once more.
LoopContinuesOnceMore(locationAttempts) == locationAttempts <= maxLocationAttempts

\* while (locationAttempts < maxLocationAttempts)
LoopContinues(locationAttempts) == locationAttempts < maxLocationAttempts

\* if (locationAttempts >= maxLocationAttempts)
AttemptsExhausted(locationAttempts) == locationAttempts >= maxLocationAttempts

FallbackLocation == [latitude |-> 0, longitude |-> 0, accuracy |-> 999999]

\* createSOSAlert(latitude, longitude, address, description, emergencyType)
\* is called and awaited.
CallCreate(c) ==
    [c EXCEPT !.pc = "creating",
              !.created = Append(@, [latitude |-> c.location.latitude,
                                     longitude |-> c.location.longitude,
                                     address |-> c.address,
                                     description |-> c.description,
                                     emergencyType |-> c.emergencyType])]

\* sendSOSAlert from the end of the loop to its next await: reading
\* location.latitude raises when no location was assigned (the outer catch
\* rethrows); the address is fetched unless a coordinate is 0.
AfterLoop(c) ==
    IF c.location = NoLocation THEN [c EXCEPT !.pc = "done", !.outcome = "threw TypeError"]
    ELSE IF c.location.latitude # 0 /\ c.location.longitude # 0
    THEN [c EXCEPT !.pc = "address", !.address = "Location not available"]
    ELSE CallCreate([c EXCEPT !.address = "Location not available"])

\* sendSOSAlert from the top of the loop to its next await.
LoopTop(c) ==
    IF LoopContinues(c.locationAttempts) THEN GetCurrentLocation(c) ELSE AfterLoop(c)

\* sendSOSAlert(description, emergencyType) is called.
SendSOS(description, emergencyType) ==
    /\ client.pc = "idle"
    /\ client' = LoopTop([client EXCEPT !.description = description,
                                        !.emergencyType = emergencyType])
    /\ UNCHANGED <<users, alerts, now, twilioClient, twilioPhone, call, res, sends,
                   requests, writes>>

\* The browser answers a getCurrentPosition request that is pending.
PositionCallback(answer) ==
    /\ client.pc = "locating"
    /\ \E k \in 1..Len(client.asked) :
          /\ client.asked[k].answer = Pending
          /\ client' = Answer(client, k, answer)
    /\ UNCHANGED <<users, alerts, now, twilioClient, twilioPhone, call, res, sends,
                   requests, writes>>

\* await getCurrentLocation() returns or raises: on success the loop is
\* left; on failure the attempt is counted and the fallback location taken
\* when the attempts are exhausted, else the 2-second timer is awaited.
ResumeAfterLocation ==
    LET settled  == client.settled[1]
        attempts == client.locationAttempts + 1
    IN
    /\ client.pc = "locating"
    /\ client.settled # <<>>
    /\ client' = IF settled.kind = "resolve"
                 THEN AfterLoop([client EXCEPT !.location = settled.value])
                 ELSE IF AttemptsExhausted(attempts)
                 THEN LoopTop([client EXCEPT !.locationAttempts = attempts,
                                             !.location = FallbackLocation])
                 ELSE [client EXCEPT !.locationAttempts = attempts, !.pc = "waiting"]
    /\ UNCHANGED <<users, alerts, now, twilioClient, twilioPhone, call, res, sends,
                   requests, writes>>

\* setTimeout(resolve, 2000) fires.
TimerFires ==
    /\ client.pc = "waiting"
    /\ client' = LoopTop(client)
    /\ UNCHANGED <<users, alerts, now, twilioClient, twilioPhone, call, res, sends,
                   requests, writes>>

\* What the reverse-geocoding fetch does: a named place, a reply without
\* display_name, a reply that is not ok, or a rejected fetch.
GeocodingAnswers == {"named", "unnamed", "notOk", "rejected"}

\* getAddressFromCoordinates: the display name, else 'Address not available'.
getAddressFromCoordinates(answer) ==
    IF answer = "named" THEN "MG Road, Bengaluru" ELSE "Address not available"

\* await getAddressFromCoordinates(...) returns.
AddressCallback(answer) ==
    /\ client.pc = "address"
    /\ client' = CallCreate([client EXCEPT !.address = getAddressFromCoordinates(answer)])
    /\ UNCHANGED <<users, alerts, now, twilioClient, twilioPhone, call, res, sends,
                   requests, writes>>

\* await createSOSAlert(...) returns the response or raises; the outer
\* catch rethrows what was raised.
CreateCallback(ok) ==
    /\ client.pc = "creating"
    /\ client' = [client EXCEPT !.pc = "done",
                                !.outcome = IF ok THEN "returned"
                                            ELSE "threw the error of createSOSAlert"]
    /\ UNCHANGED <<users, alerts, now, twilioClient, twilioPhone, call, res, sends,
                   requests, writes>>

\* A page in a browser with or without geolocation.
ClientInit ==
    /\ users = [u \in UserIds |-> NewUser(u, TRUE)]
    /\ alerts = <<>>
    /\ now = 0
    /\ twilioClient = FALSE
    /\ twilioPhone = FALSE
    /\ call = NoCall
    /\ res = Response(0, "", NoSummary, <<>>)
    /\ sends = <<>>
    /\ requests = <<>>
    /\ writes = <<>>
    /\ client \in { [NoClient EXCEPT !.supported = s] : s \in BOOLEAN }

ClientNext ==
    \/ \E description \in {"", "followed home"}, emergencyType \in {"other", "harassment"} :
          SendSOS(description, emergencyType)
    \/ \E answer \in GeolocationAnswers : PositionCallback(answer)
    \/ ResumeAfterLocation
    \/ TimerFires
    \/ \E answer \in GeocodingAnswers : AddressCallback(answer)
    \/ \E ok \in BOOLEAN : CreateCallback(ok)

\* The browser answers every getCurrentPosition request (each carries a
\* timeout), timers fire, and the two fetches settle.
ClientSpec == ClientInit /\ [][ClientNext]_vars /\ WF_vars(ClientNext)

\* ------------------------------------------------- formatPhoneNumber alone
PhoneAlphabet == {" ", "+", "0", "9", "5", "a"}

\* Every string of at most n characters of PhoneAlphabet.
RECURSIVE ShortStrings(_)
ShortStrings(n) ==
    IF n = 0 THEN {<<>>}
    ELSE LET shorter == ShortStrings(n - 1)
         IN  shorter \cup { <<c>> \o t : c \in PhoneAlphabet, t \in {x \in shorter : Len(x) = n - 1} }

\* Numbers in the forms the rules tell apart, bare and inside whitespace.
LongNumbers ==
    LET mobiles == { Mobile(d) : d \in {"5", "6", "9"} }
        forms   == mobiles
                   \cup { <<"0">> \o m : m \in mobiles }
                   \cup { <<"0", "0">> \o m : m \in mobiles }
                   \cup { <<"1">> \o m : m \in mobiles }
                   \cup { CountryCode \o m : m \in mobiles }
                   \cup { <<"+", "1">> \o m : m \in mobiles }
                   \cup { Tail(m) : m \in mobiles }
                   \cup { SubSeq(m, 1, 5) \o <<" ">> \o SubSeq(m, 6, 10) : m \in mobiles }
                   \cup { SubSeq(m, 1, 9) \o <<"a">> : m \in mobiles }
        padding == { <<>>, <<" ">>, <<"\t", " ">>, <<"\n">> }
    IN  { before \o f \o after : before \in padding, f \in forms, after \in padding }
        \cup { <<"1", "2", "3", "4", "5">> }

PhoneInputs == ShortStrings(MaxShortLen) \cup LongNumbers

NoResult == [returned |-> FALSE]

\* A call of formatPhoneNumber(call.phone) about to be made.
PhoneInit ==
    /\ users = [u \in UserIds |-> NewUser(u, TRUE)]
    /\ alerts = <<>>
    /\ now = 0
    /\ twilioClient = FALSE
    /\ twilioPhone = FALSE
    /\ sends = <<>>
    /\ call \in { [NoCall EXCEPT !.op = "formatPhoneNumber", !.phone = x] : x \in PhoneInputs }
    /\ res = NoResult
    /\ requests = <<>>
    /\ writes = <<>>
    /\ client = NoClient

\* The call returns; again is what the function makes of its own result.
FormatPhone ==
    /\ ~res.returned
    /\ res' = [ returned |-> TRUE,
                value    |-> formatPhoneNumber(call.phone),
                again    |-> formatPhoneNumber(formatPhoneNumber(call.phone)) ]
    /\ UNCHANGED <<users, alerts, now, twilioClient, twilioPhone, call, sends, requests, writes, client>>

PhoneNext == FormatPhone

PhoneSpec == PhoneInit /\ [][PhoneNext]_vars

\* ================================================================ properties
\* The users a broadcast is meant for: active, and not the creator.
OtherActiveUsers(creator) == {u \in UserIds : users[u].isActive /\ u # creator}

\* ledger has exactly one entry for each user of OtherActiveUsers(creator),
\* and no other entry.
OneEntryPerOtherActiveUser(ledger, creator) ==
    /\ Len(ledger) = Cardinality(OtherActiveUsers(creator))
    /\ \A u \in OtherActiveUsers(creator) :
          Cardinality({ i \in 1..Len(ledger) :
                          /\ ledger[i].name = users[u].name
                          /\ ledger[i].phone = CountryCode \o users[u].phone }) = 1
    /\ \A i \in 1..Len(ledger) :
          \E u \in OtherActiveUsers(creator) : ledger[i].name = users[u].name

CreatedAlert == call.op = "createAlert" /\ call.valid /\ call.fault # "persist"

\* C1: a createAlert with valid input whose alert record was saved answers
\* 201 and the alert is in the store with status active, whatever the
\* Notifier did for the recipients and whether or not recipient resolution,
\* the loop or the save of the ledger raised a fault.
C1_CreationSurvivesNotificationFaults ==
    CreatedAlert =>
        /\ res.code = 201
        /\ Len(alerts) = Len(call.before) + 1
        /\ Exists(call.alertId)
        /\ alerts[call.alertId].status = "active"
        /\ alerts[call.alertId].userId = call.user
        /\ res.alert.id = call.alertId
        /\ res.alert.status = "active"

\* A creation whose ledger save was rejected after a failed send.
C1_Witness ==
    /\ CreatedAlert
    /\ call.fault = "save"
    /\ res.code = 201
    /\ \E i \in 1..Len(res.notifications) : res.notifications[i].status = "failed"

\* C2: an alert that is resolved or false_alarm keeps its status, resolvedAt
\* and resolvedBy through every request, and an updateStatus (with a status
\* the route accepts) on it is answered 400 'Can only update active alerts'.
C2_TerminalStatusIsFinal ==
    \A a \in 1..Len(call.before) :
        call.before[a].status # "active" =>
            /\ alerts[a].status = call.before[a].status
            /\ alerts[a].resolvedAt = call.before[a].resolvedAt
            /\ alerts[a].resolvedBy = call.before[a].resolvedBy
            /\ (call.op = "updateStatus" /\ call.valid /\ call.alertId = a) =>
                  /\ res.code = 400
                  /\ res.error = "Can only update active alerts"

\* An updateStatus to resolved refused on a false_alarm alert.
C2_Witness ==
    /\ call.op = "updateStatus"
    /\ call.value = "resolved"
    /\ res.code = 400
    /\ Exists(call.alertId)
    /\ call.before[call.alertId].status = "false_alarm"
    /\ alerts[call.alertId].status = "false_alarm"

\* C3: resolvedAt and resolvedBy are set exactly on the alerts whose status
\* is resolved, and a transition to resolved stamps the requester and the
\* time of the request.
C3_ResolutionStampsIffResolved ==
    /\ \A a \in 1..Len(alerts) :
          /\ (alerts[a].resolvedAt # NoDate) <=> (alerts[a].status = "resolved")
          /\ (alerts[a].resolvedBy # NoUser) <=> (alerts[a].status = "resolved")
    /\ (call.op = "updateStatus" /\ res.code = 200 /\ call.value = "resolved") =>
          /\ alerts[call.alertId].resolvedBy = call.user
          /\ alerts[call.alertId].resolvedAt = now

\* An alert resolved by a user who is not its creator.
C3_Witness ==
    \E a \in 1..Len(alerts) :
        /\ alerts[a].status = "resolved"
        /\ alerts[a].resolvedBy = "u2"
        /\ alerts[a].userId = "u1"
        /\ alerts[a].resolvedAt # NoDate

\* A createAlert that answered 201.
CreateSucceeded == call.op = "createAlert" /\ call.valid /\ res.code = 201

\* C4 as claimed: every createAlert with valid input returns a ledger with
\* exactly one entry per other active user.
C4_LedgerCoversOtherActiveUsers ==
    CreateSucceeded => OneEntryPerOtherActiveUser(res.notifications, call.user)

\* C4, amended: the returned ledger has exactly one entry per other active
\* user (none for the creator, none for inactive users) when recipient
\* resolution and the processing of every recipient raise no fault; it is
\* empty when resolution raises one, and holds only the recipients processed
\* before it when the processing of a recipient raises one.
C4_LedgerCoversOtherActiveUsersUnlessFault ==
    CreateSucceeded =>
        /\ call.fault \in {"none", "save"} =>
              OneEntryPerOtherActiveUser(res.notifications, call.user)
        /\ call.fault = "resolve" => res.notifications = <<>>
        /\ call.fault = "loop" =>
              /\ Len(res.notifications) < Cardinality(OtherActiveUsers(call.user))
              /\ \A i \in 1..Len(res.notifications) :
                    /\ \E u \in OtherActiveUsers(call.user) :
                          res.notifications[i].name = users[u].name
                    /\ \A j \in 1..Len(res.notifications) :
                          res.notifications[i].name = res.notifications[j].name => i = j

\* A fault-free creation among an active and an inactive other user.
C4_Witness ==
    /\ CreateSucceeded
    /\ call.fault = "none"
    /\ Len(res.notifications) = 1
    /\ \E u \in UserIds : ~users[u].isActive

\* A fan-out that ran with no fault: every Notifier outcome is one of Sent,
\* Unconfigured, Failed.
FanOutCompleted ==
    /\ call.op \in {"createAlert", "notifyContacts"}
    /\ res.code \in {200, 201}
    /\ call.fault \in {"none", "save"}

\* C5: a fan-out records one ledger entry per recipient, the i-th for the
\* i-th recipient supplied, and attempts every recipient in that order,
\* whichever of them failed or were only logged.
C5_FanOutCoversEveryRecipientInOrder ==
    FanOutCompleted =>
        /\ Len(res.notifications) = Len(call.recipients)
        /\ Len(call.outcomes) = Len(call.recipients)
        /\ \A i \in 1..Len(call.recipients) :
              /\ call.outcomes[i].kind \in {"Sent", "Unconfigured", "Failed"}
              /\ res.notifications[i].name = call.recipients[i].name
              /\ res.notifications[i].relationship = call.recipients[i].relationship
              /\ res.notifications[i].phone = formatPhoneNumber(call.recipients[i].phone)
        /\ (twilioClient /\ twilioPhone) =>
              /\ Len(sends) = Len(call.recipients)
              /\ \A i \in 1..Len(call.recipients) :
                    sends[i] = formatPhoneNumber(call.recipients[i].phone)

\* A fan-out over two recipients whose first send failed and second succeeded.
C5_Witness ==
    /\ FanOutCompleted
    /\ Len(call.recipients) = 2
    /\ Len(res.notifications) = 2
    /\ res.notifications[1].status = "failed"
    /\ res.notifications[2].status = "sent"

\* C6: the status and error of a ledger entry follow from the Notifier
\* outcome for its recipient alone, and the outcome is Unconfigured exactly
\* when the client or the sender number is missing.
C6_EntryFollowsOutcome ==
    \A i \in 1..Len(res.notifications) :
        LET o == call.outcomes[i]
            e == res.notifications[i]
        IN  /\ o.kind \in {"Sent", "Unconfigured", "Failed"}
            /\ (o.kind = "Unconfigured") <=> ~(twilioClient /\ twilioPhone)
            /\ o.kind = "Sent" => (e.status = "sent" /\ e.error = "")
            /\ o.kind = "Unconfigured" =>
                  /\ e.status = "logged"
                  /\ e.error = "SMS not configured - emergency logged for manual notification"
            /\ o.kind = "Failed" =>
                  /\ e.status = "failed"
                  /\ e.error = "SMS failed: " \o o.detail

\* A ledger with a failed entry carrying the transport's detail next to a
\* sent one.
C6_Witness ==
    /\ Len(res.notifications) = 2
    /\ res.notifications[1].status = "sent"
    /\ res.notifications[1].error = ""
    /\ res.notifications[2].status = "failed"
    /\ res.notifications[2].error = "SMS failed: timeout"

\* A notifyContacts request that found its alert.
NotifyOnExisting == call.op = "notifyContacts" /\ call.alertId \in 1..Len(call.before)

\* C7: notifyContacts by a user other than the alert's creator answers 403,
\* sends nothing and leaves every alert as it was, whether the handler sees
\* the creator as a raw id or as an expanded user document.
C7_NonCreatorIsForbidden ==
    (NotifyOnExisting /\ call.before[call.alertId].userId # call.user) =>
        /\ res.code = 403
        /\ res.error = "Not authorized to notify contacts for this alert"
        /\ sends = <<>>
        /\ res.notifications = <<>>
        /\ alerts = call.before

\* A refused request on a raw creator id, the alert holding a ledger.
C7_Witness ==
    /\ NotifyOnExisting
    /\ call.user = "u2"
    /\ call.value = "id"
    /\ res.code = 403
    /\ Len(alerts[call.alertId].notifiedContacts) > 0

\* C8: notifyContacts by the creator, who has no saved emergency contact,
\* answers 400 with the NoContacts message, sends nothing and leaves the
\* alert's ledger (and every other field) as it was.
C8_NoContactsIsRejected ==
    (/\ NotifyOnExisting
     /\ call.before[call.alertId].userId = call.user
     /\ Len(users[call.user].emergencyContacts) = 0) =>
        /\ res.code = 400
        /\ res.error = "No emergency contacts found. Please add emergency contacts in your profile."
        /\ sends = <<>>
        /\ res.notifications = <<>>
        /\ alerts = call.before

\* The creator without contacts is refused while the ledger holds entries.
C8_Witness ==
    /\ NotifyOnExisting
    /\ call.user = alerts[call.alertId].userId
    /\ res.code = 400
    /\ Len(users[call.user].emergencyContacts) = 0
    /\ Len(alerts[call.alertId].notifiedContacts) > 0
    /\ twilioClient /\ twilioPhone

\* C9: after a successful notifyContacts the alert's ledger consists of one
\* entry per saved emergency contact of the creator, in the order of the
\* saved list, each with response pending and stamped by this request; no
\* entry from before the request remains.
C9_LedgerReplacedWholesale ==
    (NotifyOnExisting /\ res.code = 200) =>
        LET ledger   == alerts[call.alertId].notifiedContacts
            contacts == users[call.user].emergencyContacts
            old      == call.before[call.alertId].notifiedContacts
        IN  /\ Len(ledger) = Len(contacts)
            /\ \A i \in 1..Len(contacts) :
                  /\ res.notifications[i].name = contacts[i].name
                  /\ ledger[i].phone = formatPhoneNumber(contacts[i].phone)
                  /\ ledger[i].response = "pending"
                  /\ ledger[i].notifiedAt = now
            /\ \A j \in 1..Len(old) : old[j].notifiedAt < now
            /\ [alerts EXCEPT ![call.alertId].notifiedContacts = old] = call.before

\* A successful notifyContacts over a ledger that held an acknowledged
\* response and more entries than the creator has contacts.
C9_Witness ==
    /\ NotifyOnExisting
    /\ res.code = 200
    /\ \E j \in 1..Len(call.before[call.alertId].notifiedContacts) :
          call.before[call.alertId].notifiedContacts[j].response = "acknowledged"
    /\ Len(call.before[call.alertId].notifiedContacts)
          > Len(alerts[call.alertId].notifiedContacts)

\* The positions of ledger whose phone is exactly contactPhone.
MatchingEntries(ledger, contactPhone) ==
    {i \in 1..Len(ledger) : ledger[i].phone = contactPhone}

FirstOf(positions) == CHOOSE i \in positions : \A j \in positions : i <= j

RecordedResponse == call.op = "recordContactResponse" /\ res.code = 200

\* C10: recordContactResponse on an existing alert matches contactPhone with
\* the ledger phones as they are stored: with a match, the first matching
\* entry gets the response and a new notifiedAt, every other entry and the
\* length stay; with none, one entry with that phone and response is
\* appended and the entries before it stay.
C10_ResponseUpdatesFirstMatchOrAppends ==
    RecordedResponse =>
        LET old     == call.before[call.alertId].notifiedContacts
            new     == alerts[call.alertId].notifiedContacts
            matches == MatchingEntries(old, call.phone)
        IN  /\ [alerts EXCEPT ![call.alertId].notifiedContacts = old] = call.before
            /\ IF matches # {}
               THEN /\ Len(new) = Len(old)
                    /\ \A i \in 1..Len(old) :
                          IF i = FirstOf(matches)
                          THEN new[i] = [old[i] EXCEPT !.response = call.value,
                                                       !.notifiedAt = now]
                          ELSE new[i] = old[i]
               ELSE /\ Len(new) = Len(old) + 1
                    /\ new[Len(new)].phone = call.phone
                    /\ new[Len(new)].response = call.value
                    /\ \A i \in 1..Len(old) : new[i] = old[i]

\* A response for a phone the ledger holds twice: the first entry takes it,
\* the second keeps its own.
C10_Witness ==
    /\ RecordedResponse
    /\ call.value = "acknowledged"
    /\ Cardinality(MatchingEntries(call.before[call.alertId].notifiedContacts,
                                   call.phone)) = 2
    /\ alerts[call.alertId].notifiedContacts[1].response = "acknowledged"
    /\ alerts[call.alertId].notifiedContacts[2].response = "pending"

\* A response for the ten-digit form of a phone the ledger holds with its
\* country code: no entry matches and one is appended.
C10_UnnormalizedWitness ==
    /\ RecordedResponse
    /\ call.phone = Mobile("8")
    /\ \E i \in 1..Len(call.before[call.alertId].notifiedContacts) :
          call.before[call.alertId].notifiedContacts[i].phone = formatPhoneNumber(call.phone)
    /\ Len(alerts[call.alertId].notifiedContacts)
          = Len(call.before[call.alertId].notifiedContacts) + 1

\* A body one of whose fields is outside what POST /create allows.
OutsideLimits(body) ==
    \/ body.latitude < -90 \/ body.latitude > 90
    \/ body.longitude < -180 \/ body.longitude > 180
    \/ body.descriptionLength > 500
    \/ body.emergencyType \notin {"", "harassment", "assault", "medical", "accident", "other"}

C12_FormatIsIdempotent ==
    res.returned => res.again = res.value

\* The 11-digit form inside whitespace: the first application rewrites it,
\* the second leaves the result alone.
C12_Witness ==
    /\ res.returned
    /\ call.phone = <<" ", "0">> \o Mobile("9") \o <<"\n">>
    /\ res.value = <<"+", "9", "1">> \o Mobile("9")
    /\ res.again = res.value

\* Ten digits, the first of them 6 to 9.
IsTenDigitMobile(t) ==
    /\ Len(t) = 10
    /\ t[1] \in {"6", "7", "8", "9"}
    /\ \A k \in 1..10 : t[k] \in {"0", "1", "2", "3", "4", "5", "6", "7", "8", "9"}

\* t is x without its leading and trailing whitespace.
IsTrimOf(t, x) ==
    \E i \in 1..(Len(x) + 1), j \in 0..Len(x) :
        /\ t = SubSeq(x, i, j)
        /\ \A k \in 1..(i - 1) : x[k] \in {" ", "\t", "\n"}
        /\ \A k \in (j + 1)..Len(x) : x[k] \in {" ", "\t", "\n"}
        /\ t # <<>> => (t[1] \notin {" ", "\t", "\n"} /\ t[Len(t)] \notin {" ", "\t", "\n"})

\* r is what the first applicable rule makes of the trimmed string t.
FollowsRules(t, r) ==
    IF t # <<>> /\ t[1] = "+" THEN r = t
    ELSE IF IsTenDigitMobile(t) THEN r = <<"+", "9", "1">> \o t
    ELSE IF Len(t) = 11 /\ t[1] = "0" /\ IsTenDigitMobile(SubSeq(t, 2, 11))
         THEN r = <<"+", "9", "1">> \o SubSeq(t, 2, 11)
    ELSE r = t

\* C13: formatPhoneNumber returns '' for the empty string and otherwise what
\* the first applicable rule makes of the trimmed input: unchanged after a
\* leading '+', '+91' before ten digits starting 6-9, '+91' in place of the 0
\* of a 0 followed by such ten digits, the trimmed input itself in any other
\* case; with the four examples of the specification.
C13_FormatFollowsFirstRule ==
    res.returned =>
        LET x == call.phone
            r == res.value
        IN  /\ x = <<>> => r = <<>>
            /\ x # <<>> => \E i \in 1..(Len(x) + 1), j \in 0..Len(x) :
                              /\ IsTrimOf(SubSeq(x, i, j), x)
                              /\ FollowsRules(SubSeq(x, i, j), r)
            /\ x = Mobile("9") => r = <<"+", "9", "1">> \o Mobile("9")
            /\ x = <<"0">> \o Mobile("9") => r = <<"+", "9", "1">> \o Mobile("9")
            /\ x = <<"+", "1">> \o Mobile("9") => r = x
            /\ x = <<"1", "2", "3", "4", "5">> => r = x

\* Eleven digits that do not start with 0, inside whitespace: no rule
\* applies and the trimmed string comes back.
C13_Witness ==
    /\ res.returned
    /\ call.phone = <<"\t", " ", "1">> \o Mobile("9") \o <<" ">>
    /\ res.value = <<"1">> \o Mobile("9")

\* C14: after a fan-out that stored its ledger, every entry of the stored
\* ledger carries a status among sent, logged and failed and an error that
\* is empty exactly when the status is sent.
C14_StoredEntriesCarryOutcome ==
    (/\ call.op \in {"createAlert", "notifyContacts"}
     /\ res.code \in {200, 201}
     /\ call.fault = "none") =>
        \A i \in 1..Len(alerts[call.alertId].notifiedContacts) :
            LET entry == alerts[call.alertId].notifiedContacts[i]
            IN  /\ "status" \in DOMAIN entry
                /\ "error" \in DOMAIN entry
                /\ entry.status \in {"sent", "logged", "failed"}
                /\ (entry.error = "") <=> (entry.status = "sent")

\* The position in writes of the last ledger update of alert a (0: none).
LastWrite(a) ==
    LET mine == {k \in 1..Len(writes) : writes[k].alertId = a}
    IN  IF mine = {} THEN 0 ELSE CHOOSE k \in mine : \A j \in mine : j <= k

\* ledger is the whole ledger of the fan-out of request r and nothing else:
\* one pending entry per recipient, in order, all with the one timestamp.
IsLedgerOf(ledger, r) ==
    /\ r.op \in {"createAlert", "notifyContacts"}
    /\ Len(ledger) = Len(r.recipients)
    /\ \A i \in 1..Len(ledger) :
          /\ ledger[i].phone = formatPhoneNumber(r.recipients[i].phone)
          /\ ledger[i].response = "pending"
          /\ ledger[i].notifiedAt = ledger[1].notifiedAt

\* C15: with fan-outs interleaved on one alert, the stored ledger is at
\* every moment the whole ledger of the fan-out whose save the store applied
\* last (the empty ledger of the new alert before any): never entries of two
\* fan-outs, never part of one.
C15_LastSavedLedgerWins ==
    \A a \in 1..Len(alerts) :
        IF LastWrite(a) = 0 THEN alerts[a].notifiedContacts = <<>>
        ELSE LET w == writes[LastWrite(a)]
             IN  /\ alerts[a].notifiedContacts = w.ledger
                 /\ IsLedgerOf(w.ledger, requests[w.request])
                 /\ \A k \in 1..Len(writes) :
                       writes[k].request # w.request =>
                          \A i \in 1..Len(writes[k].ledger) :
                             writes[k].ledger[i].notifiedAt # w.ledger[1].notifiedAt

\* notify-contacts saved first and the broadcast of create, begun before
\* it, saved last.
C15_Witness ==
    /\ Len(writes) = 2
    /\ writes[1].alertId = writes[2].alertId
    /\ requests[writes[1].request].op = "notifyContacts"
    /\ requests[writes[2].request].op = "createAlert"
    /\ \A p \in RequestIds : requests[p].pc = "done"
    /\ twilioClient /\ twilioPhone

\* C16: of two interleaved updateStatus requests on one active alert at most
\* one takes the alert out of active, and no stored alert has status
\* false_alarm together with resolvedAt or resolvedBy.
C16_OneTransitionOutOfActive ==
    \A a \in 1..Len(alerts) :
        /\ Cardinality({ p \in RequestIds : /\ requests[p].op = "updateStatus"
                                            /\ requests[p].alertId = a
                                            /\ requests[p].code = 200 }) <= 1
        /\ alerts[a].status = "false_alarm" =>
              (alerts[a].resolvedAt = NoDate /\ alerts[a].resolvedBy = NoUser)

\* The writes of request p among the ledger updates applied.
WritesOf(p) == {k \in 1..Len(writes) : writes[k].request = p}

\* C17: a fan-out writes its ledger to the store once, when every recipient
\* has been processed: while it is under way the stored ledger is the one
\* it found or the whole ledger of another request, and its one write is
\* its whole ledger.
C17_LedgerSavedOnceAfterLoop ==
    \A p \in RequestIds :
        LET r == requests[p] IN
        r.op \in {"createAlert", "notifyContacts"} =>
            /\ Cardinality(WritesOf(p)) <= 1
            /\ \A k \in WritesOf(p) :
                  /\ r.pc = "done"
                  /\ Len(r.results) = Len(r.recipients)
                  /\ Len(writes[k].ledger) = Len(r.recipients)
            /\ r.pc \in {"await", "save"} =>
                  /\ WritesOf(p) = {}
                  /\ \/ alerts[r.alertId].notifiedContacts = r.found
                     \/ \E k \in 1..Len(writes) :
                           /\ writes[k].request # p
                           /\ alerts[r.alertId].notifiedContacts = writes[k].ledger
                           /\ IsLedgerOf(writes[k].ledger, requests[writes[k].request])

\* A fan-out half way through its recipients over a ledger of two entries,
\* which the store still holds.
C17_Witness ==
    \E p \in RequestIds :
        /\ requests[p].pc = "await"
        /\ Len(requests[p].results) = 1
        /\ Len(requests[p].found) = 2
        /\ alerts[requests[p].alertId].notifiedContacts = requests[p].found

\* C18: within one fan-out messages.create is invoked once for each
\* recipient reached, in order, when the Notifier is configured, and never
\* when it is not; no recipient is invoked a second time, failed or not.
C18_OneSendPerRecipient ==
    \A p \in RequestIds :
        LET r == requests[p]
            reached == Len(r.outcomes) + (IF r.pc = "await" THEN 1 ELSE 0)
        IN  /\ Len(r.sends) = IF twilioClient /\ twilioPhone THEN reached ELSE 0
            /\ Len(r.sends) <= Len(r.recipients)
            /\ \A k \in 1..Len(r.sends) :
                  r.sends[k] = formatPhoneNumber(r.recipients[k].phone)
            /\ (r.pc = "done" /\ r.code = 200 /\ r.op = "notifyContacts"
                /\ twilioClient /\ twilioPhone) => Len(r.sends) = Len(r.recipients)

\* A notify-contacts whose first send failed went on to the second contact
\* and answered; the failed contact was sent to again only by the other,
\* separate notify-contacts request.
C18_Witness ==
    \E p \in RequestIds, q \in RequestIds :
        /\ p # q
        /\ requests[p].op = "notifyContacts" /\ requests[p].code = 200
        /\ requests[p].outcomes[1].kind = "Failed"
        /\ Len(requests[p].sends) = 2
        /\ requests[q].op = "notifyContacts"
        /\ Len(requests[q].sends) >= 1
        /\ requests[q].sends[1] = requests[p].sends[1]

\* C19: every createAlert and notifyContacts request is answered in the end.
C19_FanOutRequestsAreAnswered ==
    \A p \in RequestIds :
        (requests[p].op \in {"createAlert", "notifyContacts"}) ~> (requests[p].pc = "done")

\* C20: the phone of every entry of every stored ledger is in canonical
\* form, formatPhoneNumber(phone) = phone, whether the entry was written by
\* the fan-out of create or notify-contacts or appended by contact-response.
C20_LedgerPhonesAreCanonical ==
    \A a \in 1..Len(alerts) :
        \A i \in 1..Len(alerts[a].notifiedContacts) :
            formatPhoneNumber(alerts[a].notifiedContacts[i].phone)
               = alerts[a].notifiedContacts[i].phone

\* The creator fields copied into an alert when it is created.
CreatorSnapshot(alert) ==
    [userName |-> alert.userName, userPhone |-> alert.userPhone,
     userAadhar |-> alert.userAadhar]

\* C21: no operation changes the creator snapshot (userName, userPhone,
\* userAadhar) of an alert that was stored before it: after every request
\* each alert it found still has the creator fields it had, whatever the
\* creator's profile says by then.
C21_CreatorSnapshotIsFixed ==
    /\ Len(alerts) >= Len(call.before)
    /\ \A a \in 1..Len(call.before) :
          CreatorSnapshot(alerts[a]) = CreatorSnapshot(call.before[a])

\* The creator renamed herself after raising the alert, and a later request
\* wrote the alert: it still carries the name she had.
C21_Witness ==
    /\ call.op \in {"updateStatus", "recordContactResponse", "notifyContacts"}
    /\ res.code = 200
    /\ alerts # call.before
    /\ alerts[call.alertId].userName = "Asha"
    /\ users[alerts[call.alertId].userId].name # "Asha"

\* The ids of the alerts a list response returned.
ReturnedIds == { res.alerts[k].id : k \in 1..Len(res.alerts) }

\* C22: the three queries leave the stored alerts as they found them;
\* getActiveAlerts and getNearbyAlerts return only alerts whose status is
\* active, so never an alert that was moved to resolved or false_alarm, and
\* getUserAlerts returns every alert of the caller, the closed ones too.
C22_QueriesReadOnlyAndActiveOnly ==
    call.op \in {"getActiveAlerts", "getUserAlerts", "getNearbyAlerts"} =>
        /\ alerts = call.before
        /\ res.code \in {200, 500}
        /\ res.code = 200 =>
              /\ call.op \in {"getActiveAlerts", "getNearbyAlerts"} =>
                    \A a \in ReturnedIds : alerts[a].status = "active"
              /\ call.op = "getActiveAlerts" =>
                    ReturnedIds = {a \in 1..Len(alerts) : alerts[a].status = "active"}
              /\ call.op = "getUserAlerts" =>
                    ReturnedIds = {a \in 1..Len(alerts) : alerts[a].userId = call.user}

\* A closed alert that the index still finds inside the radius: the nearby
\* query leaves it out.
C22_Witness ==
    /\ call.op = "getNearbyAlerts"
    /\ res.code = 200
    /\ res.count = 0
    /\ call.body.within = <<1>>
    /\ alerts[1].status = "false_alarm"

\* C23: when create answers 201, the notifications of the response and the
\* ledger stored on the alert describe the same recipients: as many entries,
\* the same phones in the same order, the same status for each, also after
\* a fault in the notification phase or a rejected save of the ledger.
C23_ResponseMatchesStoredLedger ==
    (call.op = "createAlert" /\ res.code = 201) =>
        LET ledger == alerts[call.alertId].notifiedContacts
        IN  /\ Len(ledger) = Len(res.notifications)
            /\ \A i \in 1..Len(ledger) :
                  /\ ledger[i].phone = res.notifications[i].phone
                  /\ "status" \in DOMAIN ledger[i]
                  /\ ledger[i].status = res.notifications[i].status

\* C24: notify-contacts and contact-response do not look at the status of
\* the alert. On an alert that exists, contact-response answers 200 whenever
\* its body is valid, and notify-contacts answers by the caller, her contacts
\* and the loop alone; a 200 changed the ledger; and whatever the answer,
\* status, resolvedAt and resolvedBy are as they were.
C24_LedgerRoutesIgnoreStatus ==
    (/\ call.op \in {"recordContactResponse", "notifyContacts"}
     /\ call.alertId \in 1..Len(call.before)) =>
        LET old == call.before[call.alertId]
            new == alerts[call.alertId]
        IN  /\ new.status = old.status
            /\ new.resolvedAt = old.resolvedAt
            /\ new.resolvedBy = old.resolvedBy
            /\ res.code = 200 => new.notifiedContacts # old.notifiedContacts
            /\ call.op = "recordContactResponse" =>
                  res.code = IF call.valid THEN 200 ELSE 400
            /\ call.op = "notifyContacts" =>
                  res.code = IF old.userId # call.user THEN 403
                             ELSE IF Len(users[call.user].emergencyContacts) = 0 THEN 400
                             ELSE IF call.fault = "loop" THEN 500
                             ELSE 200

\* notify-contacts answered 200 on a resolved alert and replaced its ledger.
C24_Witness ==
    /\ call.op = "notifyContacts"
    /\ res.code = 200
    /\ alerts[call.alertId].status = "resolved"
    /\ alerts[call.alertId].resolvedAt # NoDate
    /\ Len(alerts[call.alertId].notifiedContacts) > 0

\* C25: a status update to active on an active alert is accepted and
\* answers 200 and leaves every stored alert as it was: the status is still
\* active and resolvedAt and resolvedBy still unset, so the alert can be
\* closed later as if the request had not been made.
C25_ReactivatingActiveChangesNothing ==
    (/\ call.op = "updateStatus"
     /\ call.value = "active"
     /\ call.alertId \in 1..Len(call.before)
     /\ call.before[call.alertId].status = "active") =>
        /\ res.code = 200
        /\ alerts = call.before
        /\ alerts[call.alertId].status = "active"
        /\ alerts[call.alertId].resolvedAt = NoDate
        /\ alerts[call.alertId].resolvedBy = NoUser

\* The request was made on an active alert, by a user other than its
\* creator, and answered with the summary of the active alert.
C25_Witness ==
    /\ call.op = "updateStatus"
    /\ call.value = "active"
    /\ call.user = "u2"
    /\ res.code = 200
    /\ res.alert.status = "active"

\* The paths of an alert that a status update may write.
StatusPaths == {"status", "resolvedAt", "resolvedBy"}

\* The paths of an alert that hold text.
TextPaths == {"status", "resolvedBy", "userId", "userAadhar", "userName",
              "emergencyType", "priority"}

\* C26: a status update that answers 200 changes nothing but the status of
\* its alert and, when the new status is resolved, resolvedAt and
\* resolvedBy: the ledger, the location, the classification and the creator
\* fields of the alert and every other alert are as before, messages.create
\* is not invoked, and the resolution notes of the body are stored nowhere
\* on the alert.
C26_StatusUpdateTouchesOnlyStatus ==
    (call.op = "updateStatus" /\ res.code = 200) =>
        LET old == call.before[call.alertId]
            new == alerts[call.alertId]
        IN  /\ Len(alerts) = Len(call.before)
            /\ \A a \in 1..Len(alerts) : a # call.alertId => alerts[a] = call.before[a]
            /\ DOMAIN new = DOMAIN old
            /\ \A f \in DOMAIN old \ StatusPaths : new[f] = old[f]
            /\ call.value # "resolved" =>
                  (new.resolvedAt = old.resolvedAt /\ new.resolvedBy = old.resolvedBy)
            /\ sends = <<>>
            /\ new.status = call.value
            /\ \A f \in TextPaths : new[f] # call.body.resolutionNotes

\* An alert with a ledger of two entries was closed as a false alarm with
\* resolution notes in the body.
C26_Witness ==
    /\ call.op = "updateStatus"
    /\ res.code = 200
    /\ call.body.resolutionNotes # ""
    /\ alerts[call.alertId].status = "false_alarm"
    /\ Len(alerts[call.alertId].notifiedContacts) >= 2

\* C27: contact-response never makes a second entry for a phone: the
\* ledger, whose phones are pairwise distinct at the start, has at most one
\* entry per phone after any number of requests, interleaved or not.
C27_OneEntryPerPhone ==
    \A a \in 1..Len(alerts) :
        \A i, j \in 1..Len(alerts[a].notifiedContacts) :
            i # j => alerts[a].notifiedContacts[i].phone # alerts[a].notifiedContacts[j].phone

\* C28: whatever emergency-contact and profile requests a user makes, no
\* two of her saved emergency contacts have the same phone.
C28_ContactPhonesAreDistinct ==
    \A u \in UserIds :
        \A i, j \in 1..Len(users[u].emergencyContacts) :
            i # j => users[u].emergencyContacts[i].phone # users[u].emergencyContacts[j].phone

\* What sendSOSAlert holds at every moment of a call.
C29_Always ==
    /\ client.calls <= 2
    /\ client.locationAttempts <= client.calls
    /\ Len(client.created) <= 1
    /\ (client.pc \in {"creating", "done"}) <=> (Len(client.created) = 1)
    /\ \/ client.location = NoLocation
          /\ client.pc \in {"idle", "locating", "waiting"}
       \/ client.location = FallbackLocation
          /\ client.locationAttempts = 2
          /\ client.calls = 2
          /\ client.settled[1].kind = "reject"
       \/ client.location \in Positions
          /\ client.settled = <<Resolved(client.location)>>
          /\ client.calls = client.locationAttempts + 1
    /\ client.created # <<>> =>
          /\ client.created[1].latitude = client.location.latitude
          /\ client.created[1].longitude = client.location.longitude
          /\ client.created[1].description = client.description
          /\ client.created[1].emergencyType = client.emergencyType
    /\ (client.pc = "done") <=> (client.outcome # "none")
    /\ client.outcome \in {"none", "returned", "threw the error of createSOSAlert"}

\* C29: sendSOSAlert calls getCurrentLocation at most 2 times and not again
\* after a success, takes the fallback location (0, 0) when both attempts
\* failed, calls createSOSAlert exactly once with the location it ended up
\* with, throws only what createSOSAlert threw, and every call that has
\* started reaches the createSOSAlert call and then ends.
C29_SendSOSLocatesThenCreatesOnce ==
    /\ []C29_Always
    /\ (client.pc \in {"locating", "waiting", "address"}) ~> (client.pc = "creating")
    /\ (client.pc = "creating") ~> (client.pc = "done")

\* Both attempts failed and the SOS was still created at (0, 0).
C29_Witness ==
    /\ client.pc = "done"
    /\ client.outcome = "returned"
    /\ client.calls = 2
    /\ client.locationAttempts = 2
    /\ client.location = FallbackLocation
    /\ Len(client.created) = 1
    /\ client.created[1].latitude = 0
    /\ client.created[1].longitude = 0

\* The requests of the getCurrentLocation call under way or last made.
HighRequests == { k \in 1..Len(client.asked) : client.asked[k].options = HighAccuracy }

LowRequests == { k \in 1..Len(client.asked) : client.asked[k].options = LowAccuracy }

RequestFailed(k, codes) ==
    /\ client.asked[k].answer # Pending
    /\ ~client.asked[k].answer.ok
    /\ client.asked[k].answer.code \in codes

RequestSucceeded(k) ==
    /\ client.asked[k].answer # Pending
    /\ client.asked[k].answer.ok

\* What holds of a getCurrentLocation call at every moment.
C30_Always ==
    /\ Len(client.settled) <= 1
    /\ Cardinality(LowRequests) <= 1
    /\ HighRequests \subseteq {1}
    /\ LowRequests \subseteq {2}
    /\ LowRequests # {} => RequestFailed(1, {"TIMEOUT", "POSITION_UNAVAILABLE"})
    /\ client.asked # <<>> =>
          /\ RequestSucceeded(1) =>
                /\ Len(client.asked) = 1
                /\ client.settled = <<Resolved(client.asked[1].answer.position)>>
          /\ RequestFailed(1, {"PERMISSION_DENIED"}) =>
                /\ Len(client.asked) = 1
                /\ Len(client.settled) = 1
                /\ client.settled[1].kind = "reject"
    /\ Len(client.asked) = 2 =>
          /\ RequestSucceeded(2) => client.settled = <<Resolved(client.asked[2].answer.position)>>
          /\ RequestFailed(2, GeolocationErrors) =>
                /\ Len(client.settled) = 1
                /\ client.settled[1].kind = "reject"
    /\ client.calls > 0 =>
          (client.settled = <<>>) <=>
              (\E k \in 1..Len(client.asked) : client.asked[k].answer = Pending)

\* C30: the promise of getCurrentLocation is settled once and never again;
\* at most one low-accuracy request is made, and only after the
\* high-accuracy request failed with TIMEOUT or POSITION_UNAVAILABLE; a
\* high-accuracy success resolves and PERMISSION_DENIED rejects with one
\* request made; a low-accuracy failure rejects with two requests made.
C30_LocationPromiseSettlesOnce ==
    /\ []C30_Always
    /\ [][client.settled # <<>> /\ client'.calls = client.calls
             => client'.settled = client.settled /\ client'.asked = client.asked]_vars
    /\ (client.pc = "locating") ~> (Len(client.settled) = 1)

\* The high-accuracy request timed out, the low-accuracy request failed too,
\* and the promise was rejected.
C30_Witness ==
    /\ Len(client.asked) = 2
    /\ RequestFailed(1, {"TIMEOUT"})
    /\ RequestFailed(2, GeolocationErrors)
    /\ Len(client.settled) = 1
    /\ client.settled[1].kind = "reject"

====
